---- MODULE Spec2Model ----
(***************************************************************************)
(* Decentralized Identifiers (package did): the DID and DID URL parsers,   *)
(* their serializers, and the equivalence functions.  Strings are          *)
(* sequences of octets (naturals below 256); a Go index i is the TLA+      *)
(* index i+1, and every operator keeps the Go index of the source.         *)
(***************************************************************************)
EXTENDS Integers, Sequences, FiniteSets, TLC

VARIABLES in1, in2, dv, uv, ov, pc, ret

vars == <<in1, in2, dv, uv, ov, pc, ret>>

----------------------------------------------------------------------------
(* Octets and literals *)

Printable ==
  <<" ", "!", "dquote", "#", "$", "%", "&", "'", "(", ")", "*", "+", ",", "-", ".", "/",
    "0", "1", "2", "3", "4", "5", "6", "7", "8", "9", ":", ";", "<", "=", ">", "?",
    "@", "A", "B", "C", "D", "E", "F", "G", "H", "I", "J", "K", "L", "M", "N", "O",
    "P", "Q", "R", "S", "T", "U", "V", "W", "X", "Y", "Z", "[", "bslash", "]", "^", "_",
    "btick", "a", "b", "c", "d", "e", "f", "g", "h", "i", "j", "k", "l", "m", "n", "o",
    "p", "q", "r", "s", "t", "u", "v", "w", "x", "y", "z", "{", "|", "}", "~">>

\* The octet of a printable ASCII character.
Asc == [c \in {Printable[i] : i \in 1..Len(Printable)} |->
          31 + (CHOOSE i \in 1..Len(Printable) : Printable[i] = c)]

\* The octet string of a sequence of printable characters.
B(chars) == [i \in 1..Len(chars) |-> Asc[chars[i]]]

\* The byte literals of the code, as octets.
Colon    == 58    \* ':'
Percent  == 37    \* '%'
Slash    == 47    \* '/'
Question == 63    \* '?'
Hash     == 35    \* '#'
Dot      == 46    \* '.'

IsDigit(c) == c \in 48..57     \* '0'..'9'
IsLower(c) == c \in 97..122    \* 'a'..'z'
IsUpper(c) == c \in 65..90     \* 'A'..'Z'

\* s[i] with the Go index i
At(s, i) == s[i + 1]

\* s[i:j] with Go indices
Slice(s, i, j) == SubSeq(s, i + 1, j)

\* s[i:]
From(s, i) == SubSeq(s, i + 1, Len(s))

RECURSIVE Concat(_)
Concat(ss) == IF ss = <<>> THEN <<>> ELSE Head(ss) \o Concat(Tail(ss))

----------------------------------------------------------------------------
(* Values *)

\* "did:"
prefix == <<100, 105, 100, 58>>

ZeroDID == [Method |-> <<>>, SpecID |-> <<>>]

SyntaxError(s, i) == [S |-> s, I |-> i]

NoError == [S |-> <<>>, I |-> 0 - 2]

HasPrefix(s) == Len(s) >= Len(prefix) /\ Slice(s, 0, Len(prefix)) = prefix

\* strings.IndexAny: the Go index of the first octet of s in the set, or -1
IndexAny(s, set) ==
  IF \E i \in 0..(Len(s) - 1) : At(s, i) \in set
  THEN CHOOSE i \in 0..(Len(s) - 1) :
         At(s, i) \in set /\ \A j \in 0..(i - 1) : At(s, j) \notin set
  ELSE 0 - 1

----------------------------------------------------------------------------
(* Escape codec *)

\* "0123456789abcdef"
hexTableLower == <<48, 49, 50, 51, 52, 53, 54, 55, 56, 57, 97, 98, 99, 100, 101, 102>>

\* "0123456789ABCDEF"
hexTable == <<48, 49, 50, 51, 52, 53, 54, 55, 56, 57, 65, 66, 67, 68, 69, 70>>

\* '0'..'9', 'A'..'F', 'a'..'f'
IsHex(c) == IsDigit(c) \/ c \in 65..70 \/ c \in 97..102

\* a decoder that knows the lower-case digits only
HexValLowerOnly(c) == IF IsDigit(c) THEN c - 48 ELSE c - 97 + 10

\* the value of a hex digit: '0' is 48, 'A' is 65, 'a' is 97
HexVal(c) == IF IsDigit(c) THEN c - 48
             ELSE IF c \in 65..70 THEN c - 65 + 10
             ELSE c - 97 + 10

\* parseHex with every error at the first digit
parseHexAtFirst(s, i) ==
  IF i >= Len(s) THEN [err |-> TRUE, v |-> 0, e |-> SyntaxError(s, i)]
  ELSE IF ~IsHex(At(s, i)) THEN [err |-> TRUE, v |-> 0, e |-> SyntaxError(s, i)]
  ELSE IF i + 1 >= Len(s) THEN [err |-> TRUE, v |-> 0, e |-> SyntaxError(s, i)]
  ELSE IF ~IsHex(At(s, i + 1)) THEN [err |-> TRUE, v |-> 0, e |-> SyntaxError(s, i)]
  ELSE [err |-> FALSE, v |-> ((HexVal(At(s, i)) * 16) % 256) + HexVal(At(s, i + 1)),
        e |-> NoError]

\* two hex digits of s, starting at the Go index i
parseHex(s, i) ==
  IF i >= Len(s) THEN [err |-> TRUE, v |-> 0, e |-> SyntaxError(s, i)]
  ELSE IF ~IsHex(At(s, i)) THEN [err |-> TRUE, v |-> 0, e |-> SyntaxError(s, i)]
  ELSE IF i + 1 >= Len(s) THEN [err |-> TRUE, v |-> 0, e |-> SyntaxError(s, i + 1)]
  ELSE IF ~IsHex(At(s, i + 1)) THEN [err |-> TRUE, v |-> 0, e |-> SyntaxError(s, i + 1)]
  ELSE [err |-> FALSE, v |-> ((HexVal(At(s, i)) * 16) % 256) + HexVal(At(s, i + 1)),
        e |-> NoError]

----------------------------------------------------------------------------
(* DID parser *)

IsMethodChar(c) == IsDigit(c) \/ IsLower(c)

\* idchar without the upper-case letters
IsIdCharNoUpper(c) == IsDigit(c) \/ IsLower(c) \/ c \in {46, 45, 95}    \* '.', '-', '_'

\* idchar without pct-encoded
IsIdChar(c) == IsDigit(c) \/ IsLower(c) \/ IsUpper(c)
               \/ c \in {46, 45, 95}    \* '.', '-', '_'

RECURSIVE readMethodNameAt(_, _)
readMethodNameAt(s, i) ==
  IF i >= Len(s) THEN [err |-> TRUE, method |-> <<>>, e |-> SyntaxError(s, Len(s))]
  ELSE IF IsMethodChar(At(s, i)) THEN readMethodNameAt(s, i + 1)
  ELSE IF At(s, i) = Colon
       THEN IF i = Len(prefix)
            THEN [err |-> TRUE, method |-> <<>>, e |-> SyntaxError(s, Len(prefix))]
            ELSE [err |-> FALSE, method |-> Slice(s, Len(prefix), i), e |-> NoError]
  ELSE [err |-> TRUE, method |-> <<>>, e |-> SyntaxError(s, i)]

readMethodName(s) == readMethodNameAt(s, Len(prefix))

ParseOK(method, specID) ==
  [err |-> FALSE, did |-> [Method |-> method, SpecID |-> specID], e |-> NoError]

ParseFail(e) == [err |-> TRUE, did |-> ZeroDID, e |-> e]

\* the second loop of Parse: b is the builder
RECURSIVE ParseEscapes(_, _, _, _)
ParseEscapes(s, method, i, b) ==
  IF i >= Len(s) THEN ParseOK(method, b)
  ELSE LET c == At(s, i) IN
    IF c = Colon /\ i = Len(s) - 1 THEN ParseFail(SyntaxError(s, i))
    ELSE IF c = Colon \/ IsIdChar(c) THEN ParseEscapes(s, method, i + 1, Append(b, c))
    ELSE IF c = Percent
         THEN LET h == parseHex(s, i + 1) IN
              IF h.err THEN ParseFail(h.e)
              ELSE ParseEscapes(s, method, i + 3, Append(b, h.v))
    ELSE ParseFail(SyntaxError(s, i))

\* the first loop of Parse with a colon in the last place reported as the
\* end of the input
RECURSIVE ParseNoEscapesColonAtEnd(_, _, _, _)
ParseNoEscapesColonAtEnd(s, method, specIDStart, i) ==
  IF i >= Len(s) THEN ParseOK(method, From(s, specIDStart))
  ELSE LET c == At(s, i) IN
    IF c = Colon /\ i = Len(s) - 1 THEN ParseFail(SyntaxError(s, Len(s)))
    ELSE IF c = Colon \/ IsIdChar(c)
         THEN ParseNoEscapesColonAtEnd(s, method, specIDStart, i + 1)
    ELSE IF c = Percent THEN ParseEscapes(s, method, i, Slice(s, specIDStart, i))
    ELSE ParseFail(SyntaxError(s, i))

\* the first loop of Parse (label NoEscapes)
RECURSIVE ParseNoEscapes(_, _, _, _)
ParseNoEscapes(s, method, specIDStart, i) ==
  IF i >= Len(s) THEN ParseOK(method, From(s, specIDStart))
  ELSE LET c == At(s, i) IN
    IF c = Colon /\ i = Len(s) - 1 THEN ParseFail(SyntaxError(s, i))
    ELSE IF c = Colon \/ IsIdChar(c) THEN ParseNoEscapes(s, method, specIDStart, i + 1)
    ELSE IF c = Percent THEN ParseEscapes(s, method, i, Slice(s, specIDStart, i))
    ELSE ParseFail(SyntaxError(s, i))

\* the scheme check of Parse with every error at the start of the input
ParseSchemeAtStart(s) == [err |-> TRUE, e |-> SyntaxError(s, 0)]

\* the scheme check of Parse: the error of an input without "did:", if any
ParseScheme(s) ==
  LET i == IndexAny(s, {Colon, Slash, Question, Hash})
      mism == {k \in 0..(Len(prefix) - 1) : k >= Len(s) \/ At(prefix, k) # At(s, k)}
  IN IF i >= 0 /\ At(s, i) = Colon THEN [err |-> TRUE, e |-> SyntaxError(s, i)]
     ELSE IF mism # {}
          THEN [err |-> TRUE,
                e |-> SyntaxError(s, CHOOSE k \in mism : \A l \in mism : k <= l)]
     ELSE [err |-> FALSE, e |-> NoError]

Parse(s) ==
  LET sch == IF HasPrefix(s) THEN [err |-> FALSE, e |-> NoError] ELSE ParseScheme(s) IN
  IF sch.err THEN ParseFail(sch.e)
  ELSE LET m == readMethodName(s) IN
    IF m.err THEN ParseFail(m.e)
    ELSE LET specIDStart == Len(prefix) + Len(m.method) + 1 IN
      IF specIDStart >= Len(s) THEN ParseFail(SyntaxError(s, specIDStart))
      ELSE ParseNoEscapes(s, m.method, specIDStart, specIDStart)

----------------------------------------------------------------------------
(* DID equivalence *)

\* DID.Equal: both valid and the same value
DID_Equal(d, o) ==
  /\ ~(d.Method = <<>> \/ d.SpecID = <<>>)
  /\ \A i \in 0..(Len(d.Method) - 1) : IsMethodChar(At(d.Method, i))
  /\ o = d

\* the characters DID.EqualString passes without decoding
IsEqualStringChar(c) == IsDigit(c) \/ IsLower(c)
                        \/ c \in {46, 45, 95}    \* '.', '-', '_'

\* the loop of DID.EqualString without the check of a colon in the last place
RECURSIVE EqualStringLoopColonLast(_, _, _, _)
EqualStringLoopColonLast(d, s, i, j) ==
  IF j >= Len(d.SpecID) THEN i >= Len(s)
  ELSE LET c == At(d.SpecID, j) IN
    IF i >= Len(s) THEN FALSE
    ELSE IF IsEqualStringChar(At(s, i)) \/ At(s, i) = Colon
         THEN IF At(s, i) # c THEN FALSE ELSE EqualStringLoopColonLast(d, s, i + 1, j + 1)
    ELSE IF At(s, i) = Percent
         THEN LET h == parseHex(s, i + 1) IN
              IF h.err \/ h.v # c THEN FALSE
              ELSE EqualStringLoopColonLast(d, s, i + 3, j + 1)
    ELSE FALSE

\* the loop of DID.EqualString: i indexes s, j indexes d.SpecID
RECURSIVE EqualStringLoop(_, _, _, _)
EqualStringLoop(d, s, i, j) ==
  IF j >= Len(d.SpecID) THEN i >= Len(s)
  ELSE LET c == At(d.SpecID, j) IN
    IF i >= Len(s) THEN FALSE
    ELSE IF IsEqualStringChar(At(s, i))
         THEN IF At(s, i) # c THEN FALSE ELSE EqualStringLoop(d, s, i + 1, j + 1)
    ELSE IF At(s, i) = Colon
         THEN IF At(s, i) # c \/ j = Len(d.SpecID) - 1 THEN FALSE
              ELSE EqualStringLoop(d, s, i + 1, j + 1)
    ELSE IF At(s, i) = Percent
         THEN LET h == parseHex(s, i + 1) IN
              IF h.err \/ h.v # c THEN FALSE ELSE EqualStringLoop(d, s, i + 3, j + 1)
    ELSE FALSE

\* DID.EqualString
EqualString(d, s) ==
  IF ~HasPrefix(s) THEN FALSE
  ELSE LET m == readMethodName(s) IN
    IF m.err \/ m.method # d.Method THEN FALSE
    ELSE IF d.SpecID = <<>> THEN FALSE
    ELSE EqualStringLoop(d, s, Len(prefix) + Len(m.method) + 1, 0)

\* Equal(s1, s2)
Equal(s1, s2) == LET p == Parse(s1) IN ~p.err /\ EqualString(p.did, s2)

----------------------------------------------------------------------------
(* DID serializer *)

\* the octets DID.String writes as they are, with the colon among them
IsStringPlainWithColon(c) == IsDigit(c) \/ IsLower(c) \/ IsUpper(c) \/ c \in {46, 45, 95, 58}

\* the octets DID.String writes as they are
IsStringPlain(c) == IsDigit(c) \/ IsLower(c) \/ IsUpper(c)
                    \/ c \in {46, 45, 95}    \* '.', '-', '_'

\* "%XX" with the nibbles in the wrong order
PctEncodeSwapped(c) == <<Percent, hexTable[(c % 16) + 1], hexTable[(c \div 16) + 1]>>

\* "%XX" of an octet
PctEncode(c) == <<Percent, hexTable[(c \div 16) + 1], hexTable[(c % 16) + 1]>>

RECURSIVE StringEscapes(_, _)
StringEscapes(specID, i) ==
  IF i >= Len(specID) THEN <<>>
  ELSE LET c == At(specID, i) IN
    (IF IsStringPlain(c) THEN <<c>> ELSE PctEncode(c)) \o StringEscapes(specID, i + 1)

\* DID.String
String(d) ==
  IF d.Method = <<>> /\ d.SpecID = <<>> THEN <<>>
  ELSE LET escapeN == Cardinality({i \in 0..(Len(d.SpecID) - 1) :
                                     ~IsStringPlain(At(d.SpecID, i))}) IN
    IF escapeN = 0 THEN prefix \o d.Method \o <<Colon>> \o d.SpecID
    ELSE prefix \o d.Method \o <<Colon>> \o StringEscapes(d.SpecID, 0)

----------------------------------------------------------------------------
(* DID URL parser *)

\* digits, letters and '-', '.', '_', '~'
Unreserved == (48..57) \cup (65..90) \cup (97..122) \cup {45, 46, 95, 126}

\* '!', '$', '&', apostrophe, '(', ')', '*', '+', ',', ';', '='
SubDelims == {33, 36, 38, 39, 40, 41, 42, 43, 44, 59, 61}

\* the path BNF without pct-encoded: pchar with ':' and '@', and '/'
PathChars == Unreserved \cup SubDelims \cup {Colon, 64, Slash}

\* the query and fragment BNF without pct-encoded
QueryChars == PathChars \cup {Question}

ZeroURL == [DID |-> ZeroDID, RawPath |-> <<>>, RawQuery |-> <<>>, RawFragment |-> <<>>]

URLOK(u) == [err |-> FALSE, url |-> u, e |-> NoError]

\* an error of ParseURL that lost its offset
URLFailAtStart(e) == [err |-> TRUE, url |-> ZeroURL, e |-> [S |-> e.S, I |-> 0]]

URLFail(e) == [err |-> TRUE, url |-> ZeroURL, e |-> e]

\* one of the three read loops of ParseURL, from the Go index i: the index of
\* the first octet in stops (or len(s) at the end of s), or the error
RECURSIVE ScanComponent(_, _, _, _)
ScanComponent(s, i, allowed, stops) ==
  IF i >= Len(s) THEN [err |-> FALSE, end |-> Len(s), e |-> NoError]
  ELSE LET c == At(s, i) IN
    IF c \in allowed THEN ScanComponent(s, i + 1, allowed, stops)
    ELSE IF c = Percent
         THEN LET h == parseHex(s, i + 1) IN
              IF h.err THEN [err |-> TRUE, end |-> i, e |-> h.e]
              ELSE ScanComponent(s, i + 3, allowed, stops)
    ELSE IF c \in stops THEN [err |-> FALSE, end |-> i, e |-> NoError]
    ELSE [err |-> TRUE, end |-> i, e |-> SyntaxError(s, i)]

\* the scheme match of ParseURL without the colon check of a relative
\* reference
ParseURLSchemeNoColonCheck(s) ==
  IF HasPrefix(s)
  THEN LET i == IndexAny(s, {Slash, Question, Hash}) IN
       IF i < 0
       THEN LET p == Parse(s) IN
            [done |-> TRUE, i |-> 0, did |-> p.did,
             res |-> IF p.err THEN URLFail(p.e) ELSE URLOK([ZeroURL EXCEPT !.DID = p.did])]
       ELSE LET p == Parse(Slice(s, 0, i)) IN
            IF p.err
            THEN [done |-> TRUE, i |-> i, did |-> ZeroDID,
                  res |-> URLFail(SyntaxError(s, p.e.I))]
            ELSE [done |-> FALSE, i |-> i, did |-> p.did, res |-> URLOK(ZeroURL)]
  ELSE [done |-> FALSE, i |-> 0, did |-> ZeroDID, res |-> URLOK(ZeroURL)]

\* the scheme match of ParseURL: the DID of s and the index where the path
\* starts, or the result of ParseURL already (field done)
ParseURLScheme(s) ==
  IF HasPrefix(s)
  THEN LET i == IndexAny(s, {Slash, Question, Hash}) IN
       IF i < 0
       THEN LET p == Parse(s) IN
            [done |-> TRUE, i |-> 0, did |-> p.did,
             res |-> IF p.err THEN URLFail(p.e) ELSE URLOK([ZeroURL EXCEPT !.DID = p.did])]
       ELSE LET p == Parse(Slice(s, 0, i)) IN
            IF p.err
            THEN [done |-> TRUE, i |-> i, did |-> ZeroDID,
                  res |-> URLFail(SyntaxError(s, p.e.I))]
            ELSE [done |-> FALSE, i |-> i, did |-> p.did, res |-> URLOK(ZeroURL)]
  ELSE LET k == IndexAny(s, {Colon, Slash, Question, Hash}) IN
       IF k >= 0 /\ At(s, k) = Colon
       THEN [done |-> TRUE, i |-> 0, did |-> ZeroDID, res |-> URLFail(SyntaxError(s, k))]
       ELSE [done |-> FALSE, i |-> 0, did |-> ZeroDID, res |-> URLOK(ZeroURL)]

\* the fragment of ParseURL stored without its "#"
ParseURLFragmentNoLead(s, u, offset) ==
  LET f == ScanComponent(s, offset + 1, QueryChars, {}) IN
  IF f.err THEN URLFail(f.e)
  ELSE URLOK([u EXCEPT !.RawFragment = From(s, offset + 1)])

\* the fragment of ParseURL: offset is the index of "#", the rest of u is read
ParseURLFragment(s, u, offset) ==
  LET f == ScanComponent(s, offset + 1, QueryChars, {}) IN
  IF f.err THEN URLFail(f.e)
  ELSE URLOK([u EXCEPT !.RawFragment = From(s, offset)])

\* the query of ParseURL: offset is the index of "?"
ParseURLQuery(s, u, offset) ==
  LET q == ScanComponent(s, offset + 1, QueryChars, {Hash}) IN
  IF q.err THEN URLFail(q.e)
  ELSE IF q.end >= Len(s) THEN URLOK([u EXCEPT !.RawQuery = From(s, offset)])
  ELSE ParseURLFragment(s, [u EXCEPT !.RawQuery = Slice(s, offset, q.end)], q.end)

ParseURL(s) ==
  IF s = <<>> THEN URLFail(SyntaxError(<<>>, 0))
  ELSE LET sch == ParseURLScheme(s) IN
    IF sch.done THEN sch.res
    ELSE LET u0 == [ZeroURL EXCEPT !.DID = sch.did]
             pth == ScanComponent(s, sch.i, PathChars, {Question, Hash})
         IN IF pth.err THEN URLFail(pth.e)
            ELSE IF pth.end >= Len(s)
                 THEN URLOK([u0 EXCEPT !.RawPath = From(s, sch.i)])
            ELSE LET u1 == [u0 EXCEPT !.RawPath = Slice(s, sch.i, pth.end)] IN
                 IF At(s, pth.end) = Question THEN ParseURLQuery(s, u1, pth.end)
                 ELSE ParseURLFragment(s, u1, pth.end)

IsRelative(u) == u.DID.Method = <<>> /\ u.DID.SpecID = <<>>

\* URL.String
URL_String(u) == String(u.DID) \o u.RawPath \o u.RawQuery \o u.RawFragment

----------------------------------------------------------------------------
(* path.Join and path.Clean of the Go library, as pathEqual calls them *)

\* the write index after ".." dropped the last element of out
RECURSIVE CleanBacktrack(_, _, _)
CleanBacktrack(out, w, dotdot) ==
  IF w > dotdot /\ At(out, w) # Slash THEN CleanBacktrack(out, w - 1, dotdot) ELSE w

\* the Go index of the next "/" of p at or after r, or len(p)
RECURSIVE SegmentEnd(_, _)
SegmentEnd(p, r) == IF r < Len(p) /\ At(p, r) # Slash THEN SegmentEnd(p, r + 1) ELSE r

RECURSIVE CleanLoop(_, _, _, _, _)
CleanLoop(p, rooted, r, out, dotdot) ==
  LET n == Len(p) IN
  IF r >= n THEN out
  ELSE IF At(p, r) = Slash THEN CleanLoop(p, rooted, r + 1, out, dotdot)
  ELSE IF At(p, r) = Dot /\ (r + 1 = n \/ At(p, r + 1) = Slash)
       THEN CleanLoop(p, rooted, r + 1, out, dotdot)
  ELSE IF At(p, r) = Dot /\ At(p, r + 1) = Dot /\ (r + 2 = n \/ At(p, r + 2) = Slash)
       THEN IF Len(out) > dotdot
            THEN CleanLoop(p, rooted, r + 2,
                           Slice(out, 0, CleanBacktrack(out, Len(out) - 1, dotdot)), dotdot)
            ELSE IF ~rooted
                 THEN LET o2 == (IF Len(out) > 0 THEN Append(out, Slash) ELSE out)
                                \o <<Dot, Dot>>
                      IN CleanLoop(p, rooted, r + 2, o2, Len(o2))
            ELSE CleanLoop(p, rooted, r + 2, out, dotdot)
  ELSE LET o2 == IF (rooted /\ Len(out) # 1) \/ (~rooted /\ Len(out) # 0)
                 THEN Append(out, Slash) ELSE out
           e == SegmentEnd(p, r)
       IN CleanLoop(p, rooted, e, o2 \o Slice(p, r, e), dotdot)

\* path.Clean
pathClean(p) ==
  IF p = <<>> THEN <<Dot>>
  ELSE LET rooted == At(p, 0) = Slash
           out == IF rooted THEN CleanLoop(p, TRUE, 1, <<Slash>>, 1)
                  ELSE CleanLoop(p, FALSE, 0, <<>>, 0)
       IN IF out = <<>> THEN <<Dot>> ELSE out

\* the root in front of a without path.Clean
pathJoinRootNoClean(a) == <<Slash>> \o a

\* path.Join("/", a) for a non-empty a
pathJoinRoot(a) == pathClean(<<Slash>> \o <<Slash>> \o a)

----------------------------------------------------------------------------
(* DID URL equivalence *)

\* the next octet of an escaped string a: [ok, c, esc, rest]
NextOctet(a, allowed) ==
  IF At(a, 0) \in allowed
  THEN [ok |-> TRUE, c |-> At(a, 0), esc |-> FALSE, rest |-> From(a, 1)]
  ELSE IF At(a, 0) = Percent
       THEN LET h == parseHex(a, 1) IN
            IF h.err THEN [ok |-> FALSE, c |-> 0, esc |-> FALSE, rest |-> <<>>]
            ELSE [ok |-> TRUE, c |-> h.v, esc |-> TRUE, rest |-> From(a, 3)]
  ELSE [ok |-> FALSE, c |-> 0, esc |-> FALSE, rest |-> <<>>]

\* the loop of escapedWithLeadEqual without the compare of the octets
RECURSIVE escapedEqualLoopNoPayload(_, _)
escapedEqualLoopNoPayload(a, b) ==
  IF a = <<>> THEN b = <<>>
  ELSE IF b = <<>> THEN FALSE
  ELSE LET x == NextOctet(a, QueryChars) IN
    IF ~x.ok THEN FALSE
    ELSE LET y == NextOctet(b, QueryChars) IN
      IF ~y.ok THEN FALSE
      ELSE escapedEqualLoopNoPayload(x.rest, y.rest)

\* the loop of escapedWithLeadEqual
RECURSIVE escapedEqualLoop(_, _)
escapedEqualLoop(a, b) ==
  IF a = <<>> THEN b = <<>>
  ELSE IF b = <<>> THEN FALSE
  ELSE LET x == NextOctet(a, QueryChars) IN
    IF ~x.ok THEN FALSE
    ELSE LET y == NextOctet(b, QueryChars) IN
      IF ~y.ok THEN FALSE
      ELSE IF x.c # y.c THEN FALSE
      ELSE escapedEqualLoop(x.rest, y.rest)

\* the escaped content compared octet for octet as written
escapedWithLeadEqualRaw(a, b, lead) == a = b

escapedWithLeadEqual(a, b, lead) ==
  IF a = b THEN TRUE
  ELSE IF a = <<>> \/ b = <<>> THEN FALSE
  ELSE IF At(a, 0) # lead \/ At(b, 0) # lead THEN FALSE
  ELSE escapedEqualLoop(From(a, 1), From(b, 1))

\* the loop of pathEqual
RECURSIVE pathEqualLoop(_, _)
pathEqualLoop(a, b) ==
  IF a = <<>> THEN b = <<>>
  ELSE IF b = <<>> THEN FALSE
  ELSE LET x == NextOctet(a, PathChars) IN
    IF ~x.ok THEN FALSE
    ELSE LET y == NextOctet(b, PathChars) IN
      IF ~y.ok THEN FALSE
      ELSE IF x.c # y.c \/ (x.esc /\ x.c = Slash) # (y.esc /\ y.c = Slash) THEN FALSE
      ELSE pathEqualLoop(x.rest, y.rest)

pathEqual(a, b) ==
  IF a = b THEN TRUE
  ELSE IF a = <<>> \/ b = <<>> THEN FALSE
  ELSE pathEqualLoop(From(pathJoinRoot(a), 1), From(pathJoinRoot(b), 1))

\* URL.Equal with the DID fields compared as they are
URL_EqualPlainDID(u, o) ==
  /\ o.DID = u.DID
  /\ escapedWithLeadEqual(o.RawFragment, u.RawFragment, Hash)
  /\ escapedWithLeadEqual(o.RawQuery, u.RawQuery, Question)
  /\ pathEqual(o.RawPath, u.RawPath)

\* URL.Equal
URL_Equal(u, o) ==
  /\ ~IsRelative(o)
  /\ DID_Equal(o.DID, u.DID)
  /\ escapedWithLeadEqual(o.RawFragment, u.RawFragment, Hash)
  /\ escapedWithLeadEqual(o.RawQuery, u.RawQuery, Question)
  /\ pathEqual(o.RawPath, u.RawPath)

\* URL.EqualString with the result p of ParseURL(s)
URL_EqualParsed(u, p) == ~p.err /\ URL_Equal(u, p.url)

\* URL.EqualString
URL_EqualString(u, s) == URL_EqualParsed(u, ParseURL(s))

\* URLEqual with the result p of ParseURL(s1)
URLEqualParsed(p, s2) == ~p.err /\ URL_EqualString(p.url, s2)

\* URLEqual(s1, s2)
URLEqual(s1, s2) == URLEqualParsed(ParseURL(s1), s2)

----------------------------------------------------------------------------
(* Inputs *)

\* the longest tail of a string given to the DID parser
MaxLen == 4

\* all concatenations of at most n members of the set T of octet strings
RECURSIVE Words(_, _)
Words(T, n) ==
  IF n = 0 THEN {<<>>}
  ELSE LET W == Words(T, n - 1) IN W \cup {w \o t : w \in W, t \in T}

DIDHeads == {<<>>, B(<<"d", "i">>), B(<<"d", "i", "d">>), prefix,
             B(<<"d", "i", "d", ":", "a">>), B(<<"d", "i", "d", ":", "a", ":">>)}

DIDAlphabet == {B(<<c>>) : c \in {"a", "A", "4", "1", ":", "%", "/"}}

DIDInputs == {h \o w : h \in DIDHeads, w \in Words(DIDAlphabet, MaxLen)}

----------------------------------------------------------------------------
(* One string through the DID parser, serializer and equivalence *)

Init ==
  /\ in1 \in DIDInputs
  /\ in2 = <<>>
  /\ dv = ZeroDID
  /\ uv = <<>>
  /\ ov = <<>>
  /\ pc = "init"
  /\ ret = FALSE

\* d, err := Parse(in1)
DoParse ==
  /\ pc = "init"
  /\ ret' = Parse(in1)
  /\ dv' = ret'.did
  /\ pc' = "Parse"
  /\ UNCHANGED <<in1, in2, uv, ov>>

\* d.EqualString(in1), the parsed DID against its own source
DoEqualStringSelf ==
  /\ pc = "Parse"
  /\ ~ret.err
  /\ ret' = EqualString(dv, in1)
  /\ pc' = "EqualStringSelf"
  /\ UNCHANGED <<in1, in2, dv, uv, ov>>

\* in2 := d.String()
DoString ==
  /\ pc = "Parse"
  /\ ~ret.err
  /\ in2' = String(dv)
  /\ pc' = "String"
  /\ UNCHANGED <<in1, dv, uv, ov, ret>>

\* Parse(in2), the canonical form parsed again
DoReparse ==
  /\ pc = "String"
  /\ ret' = Parse(in2)
  /\ pc' = "Reparse"
  /\ UNCHANGED <<in1, in2, dv, uv, ov>>

Next == DoParse \/ DoEqualStringSelf \/ DoString \/ DoReparse

Spec == Init /\ [][Next]_vars

----------------------------------------------------------------------------
(* The DID grammar of the W3C (ABNF), stated without the parser:
     did                = "did:" method-name ":" method-specific-id
     method-name        = 1*method-char
     method-char        = %x61-7A / DIGIT
     method-specific-id = *( *idchar ":" ) 1*idchar
     idchar             = ALPHA / DIGIT / "." / "-" / "_" / pct-encoded
     pct-encoded        = "%" HEXDIG HEXDIG                                *)

GrammarDIGIT == 48..57

GrammarALPHA == (65..90) \cup (97..122)

GrammarHEXDIG == GrammarDIGIT \cup (65..70) \cup (97..102)

GrammarMethodChar == (97..122) \cup GrammarDIGIT

GrammarIdCharRaw == GrammarALPHA \cup GrammarDIGIT \cup {46, 45, 95}

GrammarHexValue(c) == IF c \in GrammarDIGIT THEN c - 48
                      ELSE IF c \in 65..70 THEN c - 55 ELSE c - 87

\* r is a concatenation of idchar and ":" units
RECURSIVE GrammarUnits(_)
GrammarUnits(r) ==
  IF r = <<>> THEN TRUE
  ELSE IF Head(r) = 58 \/ Head(r) \in GrammarIdCharRaw THEN GrammarUnits(Tail(r))
  ELSE IF Head(r) = 37 /\ Len(r) >= 3 /\ r[2] \in GrammarHEXDIG /\ r[3] \in GrammarHEXDIG
       THEN GrammarUnits(SubSeq(r, 4, Len(r)))
  ELSE FALSE

\* r matches method-specific-id: units, the last of which is an idchar
GrammarSpecificId(r) == r # <<>> /\ GrammarUnits(r) /\ r[Len(r)] # 58

\* the octets that a string of units stands for
RECURSIVE GrammarDecode(_)
GrammarDecode(r) ==
  IF r = <<>> THEN <<>>
  ELSE IF Head(r) = 37
       THEN <<16 * GrammarHexValue(r[2]) + GrammarHexValue(r[3])>>
            \o GrammarDecode(SubSeq(r, 4, Len(r)))
  ELSE <<Head(r)>> \o GrammarDecode(Tail(r))

\* the positions k (TLA+ index) of a ":" that ends a method name of s
GrammarSplits(s) ==
  {k \in 6..Len(s) :
     /\ SubSeq(s, 1, 4) = <<100, 105, 100, 58>>
     /\ s[k] = 58
     /\ \A m \in 5..(k - 1) : s[m] \in GrammarMethodChar
     /\ GrammarSpecificId(SubSeq(s, k + 1, Len(s)))}

MatchesDIDGrammar(s) == GrammarSplits(s) # {}

GrammarMethod(s) == LET k == CHOOSE k \in GrammarSplits(s) : TRUE IN SubSeq(s, 5, k - 1)

GrammarId(s) == LET k == CHOOSE k \in GrammarSplits(s) : TRUE IN SubSeq(s, k + 1, Len(s))

----------------------------------------------------------------------------
(* Claims on one string *)

\* C2: reflexivity of DID equivalence: for every string s that Parse accepts,
\* Parse(s).EqualString(s) is true.
C2_Reflexive == pc = "EqualStringSelf" => ret = TRUE

\* C9: Parse(s) succeeds if and only if s matches the DID grammar in full, and
\* on success Method and SpecID are both non-empty, Method is the literal
\* method name and SpecID is the percent-decoded method-specific identifier.
C9_ParseIffGrammar ==
  pc = "Parse" =>
    /\ ~ret.err <=> MatchesDIDGrammar(in1)
    /\ ret.err => ret.did = ZeroDID
    /\ ~ret.err =>
         /\ ret.did.Method # <<>>
         /\ ret.did.SpecID # <<>>
         /\ ret.did.Method = GrammarMethod(in1)
         /\ ret.did.SpecID = GrammarDecode(GrammarId(in1))

\* C9 witness: Parse accepted an identifier with a colon and a percent-escape
\* in it, and decoded the escape.
C9_Witness ==
  /\ pc = "Parse"
  /\ ~ret.err
  /\ \E i \in 1..Len(in1) : in1[i] = Percent
  /\ \E i \in 1..Len(ret.did.SpecID) : ret.did.SpecID[i] = Colon
  /\ Len(ret.did.SpecID) = Len(in1) - Len(prefix) - Len(ret.did.Method) - 3

\* C10: canonicalisation is a fixed point: for every string s that Parse
\* accepts, Parse(Parse(s).String()) succeeds and returns the DID of Parse(s).
C10_FixedPoint == pc = "Reparse" => ~ret.err /\ ret.did = dv

\* C10 witness: the canonical form differs from the accepted input, and it was
\* parsed again.
C10_Witness ==
  /\ pc = "Reparse"
  /\ in2 # in1
  /\ \E i \in 1..Len(dv.SpecID) : dv.SpecID[i] = Colon

----------------------------------------------------------------------------
(* A DID value of the caller against a string *)

\* the most octets of a SpecID the caller sets
MaxSpecIDLen == 2

\* the most tokens after the head of a string compared with a DID value
MaxTokens == 2

\* the W3C test identifiers of the percent-encoding equivalence
ExampleTail == B(<<"%", "F", "0", "%", "9", "F", "%", "A", "4", "%", "9", "6">>)

ExampleHead == B(<<"d", "i", "d", ":", "e", "x", "a", "m", "p", "l", "e", ":">>)

Examples ==
  { ExampleHead \o B(<<"e", "s", "c", "a", "p", "e", "d">>) \o ExampleTail,
    ExampleHead \o B(<<"%", "6", "5", "s", "c", "a", "p", "e", "d">>) \o ExampleTail,
    ExampleHead \o B(<<"e", "s", "c", "a", "p", "%", "6", "5", "d">>) \o ExampleTail }

ExampleDID == [Method |-> B(<<"e", "x", "a", "m", "p", "l", "e">>),
               SpecID |-> B(<<"e", "s", "c", "a", "p", "e", "d">>) \o <<240, 159, 164, 150>>]

DIDValues ==
  {[Method |-> m, SpecID |-> id] :
     m \in {<<>>, B(<<"a">>)},
     id \in Words({B(<<"a">>), B(<<"A">>), <<Colon>>}, MaxSpecIDLen)}
  \cup {ExampleDID}

ValueHeads == {<<>>, prefix, B(<<"d", "i", "d", ":", "a", ":">>),
               B(<<"d", "i", "d", ":", "b", ":">>)}

ValueTokens == {B(<<"a">>), B(<<"A">>), <<Colon>>, B(<<"/">>),
                B(<<"%", "3", "a">>), B(<<"%", "3", "A">>), B(<<"%", "4", "1">>),
                B(<<"%", "4">>)}

ValueInputs == {h \o w : h \in ValueHeads, w \in Words(ValueTokens, MaxTokens)}
               \cup Examples

InitValue ==
  /\ dv \in DIDValues
  /\ in2 \in ValueInputs
  /\ in1 = <<>>
  /\ uv = <<>>
  /\ ov = <<>>
  /\ pc = "init"
  /\ ret = FALSE

\* dv.EqualString(in2)
DoEqualString ==
  /\ pc = "init"
  /\ ret' = EqualString(dv, in2)
  /\ pc' = "EqualString"
  /\ UNCHANGED <<in1, in2, dv, uv, ov>>

NextValue == DoEqualString

SpecValue == InitValue /\ [][NextValue]_vars

\* the positions (TLA+ index) of s that hold a hex digit of a percent-escape
EscapeDigits(s) ==
  {p \in 1..Len(s) :
     \E q \in {p - 1, p - 2} :
        /\ q >= 1
        /\ q + 2 <= Len(s)
        /\ s[q] = 37
        /\ s[q + 1] \in GrammarHEXDIG
        /\ s[q + 2] \in GrammarHEXDIG}

OtherCase(c) == IF c \in 65..90 THEN c + 32 ELSE IF c \in 97..122 THEN c - 32 ELSE c

\* the strings that differ from s in the letter case of escape digits only
HexCaseVariants(s) ==
  {[p \in 1..Len(s) |-> IF p \in Q THEN OtherCase(s[p]) ELSE s[p]] :
     Q \in SUBSET EscapeDigits(s)}

\* C1: d.EqualString(s) is a boolean for every DID value d and string s; it is
\* true only if Parse(s) succeeds with the DID d, and false for every s that
\* Parse rejects.
C1_EqualStringSound ==
  pc = "EqualString" =>
    /\ ret \in BOOLEAN
    /\ ret = TRUE => (~Parse(in2).err /\ Parse(in2).did = dv)
    /\ Parse(in2).err => ret = FALSE

\* C1 witness: EqualString answered true on a string with an escaped and a
\* raw colon.
C1_Witness ==
  /\ pc = "EqualString"
  /\ ret = TRUE
  /\ \E i \in 1..Len(in2) : in2[i] = Percent
  /\ dv.SpecID = <<Colon, Asc["a"]>>

\* C3: symmetry of DID equivalence: for all strings a and b that Parse
\* accepts, if Parse(a).EqualString(b) then Parse(b).EqualString(a).
\* Here dv is Parse(a) and in2 is b.
C3_Symmetric ==
  (pc = "EqualString" /\ ret = TRUE) =>
    \A a \in ValueInputs :
      (~Parse(a).err /\ Parse(a).did = dv) => EqualString(Parse(in2).did, a)

\* C4: the outcome of d.EqualString does not depend on the letter case of the
\* hex digits of percent-escapes, and the three W3C identifiers
\* did:example:escaped%F0%9F%A4%96, did:example:%65scaped%F0%9F%A4%96 and
\* did:example:escap%65d%F0%9F%A4%96 are mutually equivalent.
C4_HexCaseInsensitive ==
  /\ pc = "EqualString" =>
       \A s2 \in HexCaseVariants(in2) : EqualString(dv, s2) = ret
  /\ (pc = "EqualString" /\ in2 \in Examples) =>
       /\ Parse(in2).did = ExampleDID
       /\ dv = ExampleDID => ret = TRUE

\* C4 witness: EqualString answered true on a string with escapes that has
\* several case variants.
C4_Witness ==
  /\ pc = "EqualString"
  /\ ret = TRUE
  /\ Cardinality(HexCaseVariants(in2)) >= 4

----------------------------------------------------------------------------
(* Two strings through the DID URL parser and URL.Equal *)

\* the most tokens of a path after its first "/"
MaxPathTokens == 2

\* the most tokens of a query or fragment after its "?" or "#"
MaxQueryTokens == 2

URLBase == B(<<"d", "i", "d", ":", "a", ":", "b">>)

PathTokens == {B(<<"/">>), B(<<"a">>), B(<<".">>), B(<<"%", "2", "F">>),
               B(<<"%", "2", "E">>), B(<<"%", "6", "1">>)}

QueryTokens == {B(<<"a">>), B(<<"/">>), B(<<"%", "6", "1">>),
                B(<<"%", "2", "f">>), B(<<"%", "2", "F">>)}

PathInputs ==
  {URLBase} \cup {URLBase \o <<Slash>> \o w : w \in Words(PathTokens, MaxPathTokens)}

QueryInputs ==
  {URLBase} \cup {URLBase \o <<Question>> \o w : w \in Words(QueryTokens, MaxQueryTokens)}

FragmentInputs ==
  {URLBase} \cup {URLBase \o <<Hash>> \o w : w \in Words(QueryTokens, MaxQueryTokens)}

\* the two W3C-style identifiers with the same parameters in another order
QueryExamples ==
  { B(<<"d", "i", "d", ":", "e", "x", "a", "m", "p", "l", "e", ":", "1",
        "?", "a", "=", "1", "&", "a", "=", "2">>),
    B(<<"d", "i", "d", ":", "e", "x", "a", "m", "p", "l", "e", ":", "1",
        "?", "a", "=", "2", "&", "a", "=", "1">>) }

\* whole URLs: each component raw or escaped, present or not, and relative
\* references
MixedInputs ==
  {d \o p \o q \o f :
     d \in {URLBase, B(<<"d", "i", "d", ":", "a", ":", "%", "6", "2">>),
            B(<<"d", "i", "d", ":", "a", ":", "c">>), <<>>},
     p \in {<<>>, B(<<"/", "a">>), B(<<"/", "%", "6", "1">>)},
     q \in {<<>>, B(<<"?", "a">>), B(<<"?", "%", "6", "1">>)},
     f \in {<<>>, B(<<"#", "a">>), B(<<"#", "%", "6", "1">>)}}
  \cup QueryExamples

URLInputs == PathInputs \cup QueryInputs \cup FragmentInputs \cup MixedInputs

InitURL ==
  /\ \/ in1 \in PathInputs /\ in2 \in PathInputs
     \/ in1 \in QueryInputs /\ in2 \in QueryInputs
     \/ in1 \in FragmentInputs /\ in2 \in FragmentInputs
     \/ in1 \in MixedInputs /\ in2 \in MixedInputs
  /\ dv = ZeroDID
  /\ uv = ZeroURL
  /\ ov = ZeroURL
  /\ pc = "init"
  /\ ret = FALSE

\* u, err := ParseURL(in1)
DoParseURL ==
  /\ pc = "init"
  /\ ret' = ParseURL(in1)
  /\ uv' = ret'.url
  /\ pc' = "ParseURL"
  /\ UNCHANGED <<in1, in2, dv, ov>>

\* o, err := ParseURL(in2)
DoParseOther ==
  /\ pc = "ParseURL"
  /\ ~ret.err
  /\ ret' = ParseURL(in2)
  /\ ov' = ret'.url
  /\ pc' = "ParseOther"
  /\ UNCHANGED <<in1, in2, dv, uv>>

\* u.Equal(o)
DoURLEqual ==
  /\ pc = "ParseOther"
  /\ ~ret.err
  /\ ret' = URL_Equal(uv, ov)
  /\ pc' = "Equal"
  /\ UNCHANGED <<in1, in2, dv, uv, ov>>

NextURL == DoParseURL \/ DoParseOther \/ DoURLEqual

SpecURL == InitURL /\ [][NextURL]_vars

----------------------------------------------------------------------------
(* RFC 3986 and the claims on URL.Equal *)

\* the octets a valid escaped string stands for
Octets(raw) == GrammarDecode(raw)

StartsWith(s, pre) == Len(s) >= Len(pre) /\ SubSeq(s, 1, Len(pre)) = pre

Drop(s, n) == SubSeq(s, n + 1, Len(s))

\* the output buffer without its last segment and the "/" before it
RECURSIVE RemoveLastSegment(_)
RemoveLastSegment(out) ==
  IF out = <<>> THEN <<>>
  ELSE IF out[Len(out)] = 47 THEN SubSeq(out, 1, Len(out) - 1)
  ELSE RemoveLastSegment(SubSeq(out, 1, Len(out) - 1))

\* the length of the first path segment of inp, with its initial "/" if any
RECURSIVE FirstSegmentLen(_, _)
FirstSegmentLen(inp, n) ==
  IF n >= Len(inp) THEN Len(inp)
  ELSE IF inp[n + 1] = 47 /\ n > 0 THEN n
  ELSE FirstSegmentLen(inp, n + 1)

\* remove_dot_segments of RFC 3986, section 5.2.4, steps 2A to 2E
RECURSIVE RemoveDotSegmentsLoop(_, _)
RemoveDotSegmentsLoop(inp, out) ==
  IF inp = <<>> THEN out
  ELSE IF StartsWith(inp, <<46, 46, 47>>) THEN RemoveDotSegmentsLoop(Drop(inp, 3), out)
  ELSE IF StartsWith(inp, <<46, 47>>) THEN RemoveDotSegmentsLoop(Drop(inp, 2), out)
  ELSE IF StartsWith(inp, <<47, 46, 47>>) THEN RemoveDotSegmentsLoop(Drop(inp, 2), out)
  ELSE IF inp = <<47, 46>> THEN RemoveDotSegmentsLoop(<<47>>, out)
  ELSE IF StartsWith(inp, <<47, 46, 46, 47>>)
       THEN RemoveDotSegmentsLoop(Drop(inp, 3), RemoveLastSegment(out))
  ELSE IF inp = <<47, 46, 46>> THEN RemoveDotSegmentsLoop(<<47>>, RemoveLastSegment(out))
  ELSE IF inp = <<46>> \/ inp = <<46, 46>> THEN out
  ELSE LET n == FirstSegmentLen(inp, 0) IN
       RemoveDotSegmentsLoop(Drop(inp, n), out \o SubSeq(inp, 1, n))

RemoveDotSegments(path) == RemoveDotSegmentsLoop(path, <<>>)

\* the segments of a raw path: the text between its raw "/"
RECURSIVE RawSegments(_, _)
RawSegments(path, cur) ==
  IF path = <<>> THEN <<cur>>
  ELSE IF Head(path) = 47 THEN <<cur>> \o RawSegments(Tail(path), <<>>)
  ELSE RawSegments(Tail(path), Append(cur, Head(path)))

\* the segments that are left of a rooted path: empty and "." segments do
\* not count, and ".." takes the segment before it away
RECURSIVE CleanSegments(_, _)
CleanSegments(segs, stack) ==
  IF segs = <<>> THEN stack
  ELSE IF Head(segs) = <<>> \/ Head(segs) = <<46>> THEN CleanSegments(Tail(segs), stack)
  ELSE IF Head(segs) = <<46, 46>>
       THEN CleanSegments(Tail(segs),
                          IF stack = <<>> THEN <<>> ELSE SubSeq(stack, 1, Len(stack) - 1))
  ELSE CleanSegments(Tail(segs), Append(stack, Head(segs)))

\* the percent-decoded segments of a raw path after cleaning
DecodedSegments(path) ==
  LET segs == CleanSegments(RawSegments(path, <<>>), <<>>) IN
  [i \in 1..Len(segs) |-> Octets(segs[i])]

\* both URLs are absolute results of ParseURL that URL.Equal compared
Compared == pc = "Equal" /\ ~IsRelative(uv) /\ ~IsRelative(ov)

\* the URLs agree on DID, query and fragment
AgreeButPath ==
  /\ uv.DID = ov.DID
  /\ Octets(uv.RawQuery) = Octets(ov.RawQuery)
  /\ Octets(uv.RawFragment) = Octets(ov.RawFragment)

\* the absolute URLs that ParseURL returns for the inputs
ParsedURLs ==
  {ParseURL(s).url : s \in {x \in URLInputs : ~ParseURL(x).err /\ ~IsRelative(ParseURL(x).url)}}

\* C6: query comparison is order-sensitive: two absolute DID URLs whose
\* queries do not percent-decode to the same octet sequence in the same order
\* are never Equal; did:example:1?a=1&a=2 is not equivalent to
\* did:example:1?a=2&a=1.
C6_QueryOrdered ==
  /\ (Compared /\ ret = TRUE) => Octets(uv.RawQuery) = Octets(ov.RawQuery)
  /\ (Compared /\ in1 \in QueryExamples /\ in2 \in QueryExamples /\ in1 # in2)
       => ret = FALSE

\* C6 witness: two URLs with differently written queries of the same octets
\* compared equal.
C6_Witness ==
  /\ Compared
  /\ ret = TRUE
  /\ uv.RawQuery # ov.RawQuery
  /\ Len(Octets(uv.RawQuery)) >= 3

SamePathButEscapes(a, b) ==
  LET sa == RawSegments(a, <<>>)
      sb == RawSegments(b, <<>>)
  IN /\ Len(sa) = Len(sb)
     /\ \A i \in 1..Len(sa) :
          /\ Octets(sa[i]) = Octets(sb[i])
          /\ Octets(sa[i]) \in {<<46>>, <<46, 46>>}
               => (sa[i] = Octets(sa[i])) = (sb[i] = Octets(sb[i]))

\* reflexive, symmetric and transitive on the absolute URLs of ParseURL
URLEqualIsEquivalence ==
  Compared =>
    /\ in1 = in2 => ret = TRUE
    /\ ret = URL_Equal(ov, uv)
    /\ ret = TRUE => \A w \in ParsedURLs : URL_Equal(ov, w) => URL_Equal(uv, w)

----------------------------------------------------------------------------
(* Two URL values of the caller through URL.Equal *)

URLValues ==
  {[DID |-> d, RawPath |-> p, RawQuery |-> q, RawFragment |-> f] :
     d \in {ZeroDID, [Method |-> B(<<"a">>), SpecID |-> B(<<"b">>)],
            [Method |-> B(<<"a">>), SpecID |-> <<>>],
            [Method |-> <<>>, SpecID |-> B(<<"b">>)]},
     p \in {<<>>, B(<<"/", "a">>), B(<<"a">>)},
     q \in {<<>>, B(<<"?", "a">>)},
     f \in {<<>>, B(<<"#", "a">>)}}

InitURLValue ==
  /\ uv \in URLValues
  /\ ov \in URLValues
  /\ in1 = <<>>
  /\ in2 = <<>>
  /\ dv = ZeroDID
  /\ pc = "init"
  /\ ret = FALSE

\* uv.Equal(ov)
DoValueEqual ==
  /\ pc = "init"
  /\ ret' = URL_Equal(uv, ov)
  /\ pc' = "Equal"
  /\ UNCHANGED <<in1, in2, dv, uv, ov>>

\* in1 := uv.String(), the source string of a relative reference
DoValueString ==
  /\ pc = "init"
  /\ uv = ov
  /\ in1' = URL_String(uv)
  /\ pc' = "String"
  /\ UNCHANGED <<in2, dv, uv, ov, ret>>

\* uv.EqualString(in1)
DoValueEqualString ==
  /\ pc = "String"
  /\ ret' = URL_EqualString(uv, in1)
  /\ pc' = "EqualString"
  /\ UNCHANGED <<in1, in2, dv, uv, ov>>

\* URLEqual(in1, in1)
DoValueURLEqual ==
  /\ pc = "String"
  /\ ret' = URLEqual(in1, in1)
  /\ pc' = "URLEqual"
  /\ UNCHANGED <<in1, in2, dv, uv, ov>>

NextURLValue == DoValueEqual \/ DoValueString \/ DoValueEqualString \/ DoValueURLEqual

SpecURLValue == InitURLValue /\ [][NextURLValue]_vars

\* C5: a relative DID URL never compares equal: u.Equal(o) is false when u or
\* o is relative, u.Equal(u) included, and so is the comparison of a relative
\* reference with its own source string through EqualString and URLEqual.
C5_RelativeNeverEqual ==
  /\ (pc = "Equal" /\ (IsRelative(uv) \/ IsRelative(ov))) => ret = FALSE
  /\ (pc \in {"EqualString", "URLEqual"} /\ IsRelative(uv)) => ret = FALSE

\* C5 witness: a relative reference with a path and a fragment was compared
\* with itself.
C5_Witness ==
  /\ pc = "Equal"
  /\ IsRelative(uv)
  /\ ov = uv
  /\ uv.RawPath # <<>>
  /\ uv.RawFragment # <<>>

----------------------------------------------------------------------------
(* A DID value of the caller through DID.String and Parse *)

\* the most octets of a SpecID the caller sets for the codec cycle
MaxCodecLen == 3

\* NUL, '%', '-', '/', ':', 'A', 'a', 0xFF
CodecOctets == {0, 37, 45, 47, 58, 65, 97, 255}

\* "a", "1b", and the invalid "A" and ":"
CodecMethods == {<<97>>, <<49, 98>>, <<65>>, <<58>>}

CodecValues ==
  {[Method |-> m, SpecID |-> id] :
     m \in CodecMethods,
     id \in UNION {[1..n -> CodecOctets] : n \in 0..MaxCodecLen}}

InitCodec ==
  /\ dv \in CodecValues
  /\ in1 = <<>>
  /\ in2 = <<>>
  /\ uv = <<>>
  /\ ov = <<>>
  /\ pc = "init"
  /\ ret = FALSE

\* in1 := dv.String()
DoCodecString ==
  /\ pc = "init"
  /\ in1' = String(dv)
  /\ pc' = "String"
  /\ UNCHANGED <<in2, dv, uv, ov, ret>>

\* d2, err := Parse(in1)
DoCodecParse ==
  /\ pc = "String"
  /\ ret' = Parse(in1)
  /\ pc' = "Parse"
  /\ UNCHANGED <<in1, in2, dv, uv, ov>>

NextCodec == DoCodecString \/ DoCodecParse

SpecCodec == InitCodec /\ [][NextCodec]_vars

\* the method is a non-empty string over [a-z0-9]
MethodIsValid(d) ==
  /\ d.Method # <<>>
  /\ \A i \in 1..Len(d.Method) : d.Method[i] \in (48..57) \cup (97..122)

RECURSIVE IsCanonicalTail(_)
IsCanonicalTail(t) ==
  IF t = <<>> THEN TRUE
  ELSE IF Head(t) \in (48..57) \cup (65..90) \cup (97..122) \cup {46, 95, 45}
       THEN IsCanonicalTail(Tail(t))
  ELSE /\ Head(t) = 37
       /\ Len(t) >= 3
       /\ t[2] \in (48..57) \cup (65..70)
       /\ t[3] \in (48..57) \cup (65..70)
       /\ IsCanonicalTail(SubSeq(t, 4, Len(t)))

\* C12: for every DID with a non-empty Method, String() is "did:" Method ":"
\* followed only by bytes of [A-Za-z0-9._-] and by percent-escapes with two
\* upper-case hex digits; no raw colon of the SpecID is emitted.
C12_CanonicalAlphabet ==
  (pc \in {"String", "Parse"} /\ dv.Method # <<>>) =>
     LET head == <<100, 105, 100, 58>> \o dv.Method \o <<58>> IN
     /\ Len(in1) >= Len(head)
     /\ SubSeq(in1, 1, Len(head)) = head
     /\ IsCanonicalTail(SubSeq(in1, Len(head) + 1, Len(in1)))
     /\ \A i \in (Len(head) + 1)..Len(in1) : in1[i] # 58

\* C12 witness: a SpecID with a colon, a slash and a byte above 0x9F was
\* written.
C12_Witness ==
  /\ pc = "String"
  /\ dv.Method # <<>>
  /\ dv.SpecID = <<58, 47, 255>>
  /\ Len(in1) = Len(dv.Method) + 5 + 9

----------------------------------------------------------------------------
(* One string through ParseURL, Parse and URL.String *)

\* the most octets after the head of a string for ParseURL
MaxURLLen == 4

\* "", "di", "did:", "did:a:", "did:a:b"
URLHeads == {<<>>, <<100, 105>>, <<100, 105, 100, 58>>,
             <<100, 105, 100, 58, 97, 58>>, <<100, 105, 100, 58, 97, 58, 98>>}

\* 'a', ':', '/', '?', '#', '%', '4'
URLAlphabet == {97, 58, 47, 63, 35, 37, 52}

\* "/did:a", "a/b:c?d:e#f:g", "did:a:b/c:d?e#f"
ParseURLExamples ==
  {<<47, 100, 105, 100, 58, 97>>,
   <<97, 47, 98, 58, 99, 63, 100, 58, 101, 35, 102, 58, 103>>,
   <<100, 105, 100, 58, 97, 58, 98, 47, 99, 58, 100, 63, 101, 35, 102>>}

ParseURLInputs ==
  {h \o w : h \in URLHeads,
            w \in UNION {[1..n -> URLAlphabet] : n \in 0..MaxURLLen}}
  \cup ParseURLExamples

InitParseURL ==
  /\ in1 \in ParseURLInputs
  /\ in2 = <<>>
  /\ dv = ZeroDID
  /\ uv = ZeroURL
  /\ ov = <<>>
  /\ pc = "init"
  /\ ret = FALSE

\* u, err := ParseURL(in1)
DoParseURLOne ==
  /\ pc = "init"
  /\ ret' = ParseURL(in1)
  /\ uv' = ret'.url
  /\ pc' = "ParseURL"
  /\ UNCHANGED <<in1, in2, dv, ov>>

\* d, err := Parse(in1) on the same string; ov keeps the result of Parse
DoParseSame ==
  /\ pc = "ParseURL"
  /\ ov' = Parse(in1)
  /\ dv' = ov'.did
  /\ pc' = "Parse"
  /\ UNCHANGED <<in1, in2, uv, ret>>

\* in2 := u.String()
DoURLString ==
  /\ pc = "ParseURL"
  /\ ~ret.err
  /\ in2' = URL_String(uv)
  /\ pc' = "String"
  /\ UNCHANGED <<in1, dv, uv, ov, ret>>

NextParseURL == DoParseURLOne \/ DoParseSame \/ DoURLString

SpecParseURL == InitParseURL /\ [][NextParseURL]_vars

\* s begins with "did:"
BeginsWithDID(s) == Len(s) >= 4 /\ SubSeq(s, 1, 4) = <<100, 105, 100, 58>>

\* the positions (TLA+ index) of s that hold one of the octets
Positions(s, octets) == {i \in 1..Len(s) : s[i] \in octets}

\* the least of a non-empty set of numbers
Least(S) == CHOOSE x \in S : \A y \in S : x <= y

\* the suffix of s from its first "/", "?" or "#"; all of s when it is relative
RawSuffix(s) ==
  IF ~BeginsWithDID(s) THEN s
  ELSE LET ds == Positions(s, {47, 63, 35}) IN
       IF ds = {} THEN <<>> ELSE SubSeq(s, Least(ds), Len(s))

\* C13: for every s that ParseURL accepts, RawPath + RawQuery + RawFragment
\* is the suffix of s from the first "/", "?" or "#" after the DID (all of s
\* for a relative reference), RawQuery is empty or starts with "?",
\* RawFragment is empty or starts with "#", and String() is DID.String() +
\* RawPath + RawQuery + RawFragment, which is s for a relative reference.
C13_RawParts ==
  (pc \in {"ParseURL", "String"} /\ ~ret.err) =>
    /\ uv.RawPath \o uv.RawQuery \o uv.RawFragment = RawSuffix(in1)
    /\ uv.RawQuery = <<>> \/ Head(uv.RawQuery) = 63
    /\ uv.RawFragment = <<>> \/ Head(uv.RawFragment) = 35
    /\ pc = "String" =>
         /\ in2 = String(uv.DID) \o uv.RawPath \o uv.RawQuery \o uv.RawFragment
         /\ ~BeginsWithDID(in1) => in2 = in1

\* C13 witness: an absolute URL with a path, a query and a fragment was
\* written back.
C13_Witness ==
  /\ pc = "String"
  /\ BeginsWithDID(in1)
  /\ Len(uv.RawPath) >= 2
  /\ Len(uv.RawQuery) >= 2
  /\ Len(uv.RawFragment) >= 2

\* C14: for every s that does not begin with "did:", ParseURL fails with a
\* SyntaxError at the first ":" whenever a ":" occurs before the first "/",
\* "?" or "#" of s, or s has a ":" and none of those; a ":" only after a "/",
\* "?" or "#" does not by itself cause rejection: "/did:a" is accepted as a
\* relative reference, and an error is at a ":" only where the ":" stands for
\* a hex digit of an escape.
C14_RelativeColon ==
  (pc = "ParseURL" /\ ~BeginsWithDID(in1)) =>
    LET cs == Positions(in1, {58})
        ds == Positions(in1, {47, 63, 35})
    IN IF cs # {} /\ (ds = {} \/ Least(cs) < Least(ds))
       THEN ret.err /\ ret.e = [S |-> in1, I |-> Least(cs) - 1]
       ELSE /\ in1 = <<47, 100, 105, 100, 58, 97>>
               => (~ret.err /\ IsRelative(uv) /\ uv.RawPath = in1)
            /\ (ret.err /\ (ret.e.I + 1) \in cs)
               => \E k \in {ret.e.I, ret.e.I - 1} : k >= 1 /\ in1[k] = 37

\* C14 witness: a relative reference with a colon after its first "/", "?" or
\* "#" was accepted, the colon not in the last place.
C14_Witness ==
  /\ pc = "ParseURL"
  /\ ~BeginsWithDID(in1)
  /\ ~ret.err
  /\ \E i \in 2..(Len(in1) - 1) : in1[i] = 58

\* C15: for every s that begins with "did:" and has none of "/", "?", "#",
\* either ParseURL and Parse both succeed, with Parse's DID and an empty
\* path, query and fragment in the URL, or both fail with a SyntaxError of
\* the same S and the same I.
C15_AgreesWithParse ==
  (pc = "Parse" /\ BeginsWithDID(in1) /\ Positions(in1, {47, 63, 35}) = {}) =>
    IF ov.err
    THEN ret.err /\ ret.e.S = ov.e.S /\ ret.e.I = ov.e.I /\ ov.e.S = in1
    ELSE /\ ~ret.err
         /\ uv = [DID |-> ov.did, RawPath |-> <<>>, RawQuery |-> <<>>,
                  RawFragment |-> <<>>]

\* C15 witness: both parsers rejected a plain DID behind its start.
C15_Witness ==
  /\ pc = "Parse"
  /\ BeginsWithDID(in1)
  /\ Positions(in1, {47, 63, 35}) = {}
  /\ ov.err
  /\ ret.err
  /\ ov.e.I > 6

----------------------------------------------------------------------------
(* Claims on the errors of Parse *)

\* the ends that complete a DID in the making: "", "a", ":a", "aa", "a:a", ...
Completions == UNION {[1..n -> {97, 58}] : n \in 0..3}

\* p is the start of some string of the DID grammar
IsViable(p) == \E w \in Completions : MatchesDIDGrammar(p \o w)

\* the lengths of the starts of s that no string of the grammar has
IllegalAt(s) == {i \in 5..Len(s) : ~IsViable(SubSeq(s, 1, i))}

\* C16: every error of Parse is a SyntaxError with the input as S and with I
\* in [0, len(S)]; for an input that starts with "did:", I is the index of
\* the first illegal byte (index 4 for the colon of an empty method), the
\* index of the final byte when that is a ":" that ends the method-specific
\* identifier, and len(S) when the input ends before the end of the method or
\* before the first octet of the identifier.
C16_ErrorLocation ==
  (pc = "Parse" /\ ret.err) =>
    /\ ret.e.S = in1
    /\ ret.e.I \in 0..Len(in1)
    /\ BeginsWithDID(in1) =>
         LET bad == IllegalAt(in1)
             colons == Cardinality(Positions(in1, {58}))
         IN IF bad # {} THEN ret.e.I = Least(bad) - 1
            ELSE IF in1[Len(in1)] = 58 /\ colons >= 3 THEN ret.e.I = Len(in1) - 1
            ELSE IF colons = 1 \/ (colons = 2 /\ in1[Len(in1)] = 58)
                 THEN ret.e.I = Len(in1)
            ELSE TRUE

\* C16 witness: a colon in the last place of an identifier with an escape was
\* rejected.
C16_Witness ==
  /\ pc = "Parse"
  /\ ret.err
  /\ BeginsWithDID(in1)
  /\ IllegalAt(in1) = {}
  /\ in1[Len(in1)] = 58
  /\ ret.e.I = Len(in1) - 1
  /\ Positions(in1, {37}) # {}

\* the index of the first byte of s that is not the byte of "did:" there, or
\* len(s)
FirstMismatch(s) ==
  Least({k \in 0..3 : k >= Len(s) \/ s[k + 1] # <<100, 105, 100, 58>>[k + 1]})

\* C17 as stated: when s does not begin with "did:", Parse fails with a
\* SyntaxError at the first byte of s that differs from the byte of "did:"
\* there, or at len(s) when s is a proper prefix of "did:".
C17_FirstMismatch ==
  (pc = "Parse" /\ ~BeginsWithDID(in1)) =>
    (ret.err /\ ret.e = [S |-> in1, I |-> FirstMismatch(in1)])

\* C17 amended: when s does not begin with "did:", Parse fails with a
\* SyntaxError; its offset is the index of the first ":" when s has a ":"
\* before any "/", "?" or "#" (s has another scheme), and otherwise the index
\* of the first byte that differs from the byte of "did:" there, or len(s)
\* when s is a proper prefix of "did:".
C17_SchemeOrMismatch ==
  (pc = "Parse" /\ ~BeginsWithDID(in1)) =>
    LET cs == Positions(in1, {58})
        ds == Positions(in1, {47, 63, 35})
    IN /\ ret.err
       /\ ret.e.S = in1
       /\ ret.e.I = IF cs # {} /\ (ds = {} \/ Least(cs) < Least(ds))
                    THEN Least(cs) - 1
                    ELSE FirstMismatch(in1)

\* C17 witness: an input with another scheme was rejected at its colon, which
\* is not where it first differs from "did:".
C17_Witness ==
  /\ pc = "Parse"
  /\ ~BeginsWithDID(in1)
  /\ ret.err
  /\ ret.e.I > FirstMismatch(in1)
  /\ in1[ret.e.I + 1] = 58

\* the places (TLA+ index) of a "%" of the identifier that is not followed by
\* two hex digits, with all before it in order
BrokenEscapes(s) ==
  {k \in 5..Len(s) :
     /\ s[k] = 37
     /\ IsViable(SubSeq(s, 1, k))
     /\ ~(Len(s) >= k + 2 /\ s[k + 1] \in GrammarHEXDIG /\ s[k + 2] \in GrammarHEXDIG)}

\* C18 as stated: a "%" of the method-specific identifier that is not
\* followed by two hex digits makes Parse fail with a SyntaxError at the index
\* of that "%".
C18_ErrorAtPercent ==
  (pc = "Parse" /\ BeginsWithDID(in1)) =>
    \A k \in BrokenEscapes(in1) : ret.err /\ ret.e = [S |-> in1, I |-> k - 1]

\* C18 amended: a "%" of the method-specific identifier that is not followed
\* by two hex digits makes Parse fail with a SyntaxError at the index of the
\* first of the two bytes behind the "%" that is not a hex digit, or at
\* len(s) when the input ends before.
C18_ErrorAtDigit ==
  (pc = "Parse" /\ BeginsWithDID(in1)) =>
    \A k \in BrokenEscapes(in1) :
      /\ ret.err
      /\ ret.e.S = in1
      /\ ret.e.I = IF Len(in1) < k + 1 THEN Len(in1)
                   ELSE IF in1[k + 1] \notin GrammarHEXDIG THEN k
                   ELSE IF Len(in1) < k + 2 THEN Len(in1)
                   ELSE k + 1

\* C18 witness: an escape with a hex digit and a byte that is none was
\* rejected at that byte, with more input behind it.
C18_Witness ==
  /\ pc = "Parse"
  /\ BeginsWithDID(in1)
  /\ \E k \in BrokenEscapes(in1) :
       /\ Len(in1) >= k + 3
       /\ in1[k + 1] \in GrammarHEXDIG
       /\ ret.err
       /\ ret.e.I = k + 1

----------------------------------------------------------------------------
(* Path segments: URL.SetPathSegments and URL.PathSegments *)

\* strings.IndexByte
IndexByte(s, c) == IndexAny(s, {c})

\* the loop of bestEffortDecode: b is the builder
RECURSIVE bestEffortDecodeLoop(_, _)
bestEffortDecodeLoop(s, b) ==
  LET i == IndexByte(s, Percent) IN
  IF i < 0 THEN b \o s
  ELSE LET h == parseHex(s, i + 1) IN
       IF h.err THEN bestEffortDecodeLoop(From(s, i + 1), b \o Slice(s, 0, i + 1))
       ELSE bestEffortDecodeLoop(From(s, i + 3), (b \o Slice(s, 0, i)) \o <<h.v>>)

\* the segment as written, its escapes left as they are
bestEffortDecodeNone(s) == s

\* bestEffortDecode: malformed percent-encodings pass as they are
bestEffortDecode(s) == bestEffortDecodeLoop(s, <<>>)

\* the loop of URL.PathSegments over the path without its first "/"
RECURSIVE PathSegmentsLoop(_, _)
PathSegmentsLoop(s, segs) ==
  LET i == IndexByte(s, Slash) IN
  IF i < 0
  THEN IF s # <<>> THEN Append(segs, bestEffortDecode(s)) ELSE segs
  ELSE PathSegmentsLoop(From(s, i + 1), Append(segs, bestEffortDecode(Slice(s, 0, i))))

\* URL.PathSegments; nil is the empty sequence
PathSegments(u) ==
  IF u.RawPath = <<>> THEN <<>>
  ELSE PathSegmentsLoop(IF Head(u.RawPath) = Slash THEN Tail(u.RawPath) ELSE u.RawPath,
                        <<>>)

\* the bytes url.PathEscape of the Go library leaves as they are: letters,
\* digits, '-', '_', '.', '~', and '$', '&', '+', ':', '=', '@'
IsPathEscapePlain(c) ==
  IsDigit(c) \/ IsLower(c) \/ IsUpper(c) \/ c \in {45, 95, 46, 126, 36, 38, 43, 58, 61, 64}

\* url.PathEscape of the Go library
RECURSIVE PathEscape(_)
PathEscape(s) ==
  IF s = <<>> THEN <<>>
  ELSE (IF IsPathEscapePlain(Head(s)) THEN <<Head(s)>> ELSE PctEncode(Head(s)))
       \o PathEscape(Tail(s))

\* the loop of URL.SetPathSegments: "/" and the escaped segment, for each
RECURSIVE WriteSegments(_)
WriteSegments(segs) ==
  IF segs = <<>> THEN <<>>
  ELSE (<<Slash>> \o PathEscape(Head(segs))) \o WriteSegments(Tail(segs))

\* URL.SetPathSegments without the "/" behind an empty last segment
SetPathSegmentsNoTrail(u, segs) ==
  IF Len(segs) = 0 THEN [u EXCEPT !.RawPath = <<>>]
  ELSE [u EXCEPT !.RawPath = WriteSegments(segs)]

\* URL.SetPathSegments: the URL with the new path
SetPathSegments(u, segs) ==
  IF Len(segs) = 0 THEN [u EXCEPT !.RawPath = <<>>]
  ELSE [u EXCEPT !.RawPath =
          WriteSegments(segs) \o (IF segs[Len(segs)] = <<>> THEN <<Slash>> ELSE <<>>)]

\* the most segments the caller sets
MaxSegs == 3

\* "", "x", "a/b", "/", "%", "%41", "?#", 0xFF 0x20
SegmentValues ==
  {<<>>, <<120>>, <<97, 47, 98>>, <<47>>, <<37>>, <<37, 52, 49>>, <<63, 35>>, <<255, 32>>}

\* the URLs the caller starts with: no path, or a path to be replaced
SegmentURLs == {ZeroURL, [ZeroURL EXCEPT !.RawPath = <<47, 111, 108, 100>>]}

InitSegments ==
  /\ in1 \in UNION {[1..n -> SegmentValues] : n \in 0..MaxSegs}
  /\ uv \in SegmentURLs
  /\ in2 = <<>>
  /\ dv = ZeroDID
  /\ ov = <<>>
  /\ pc = "init"
  /\ ret = <<>>

\* u.SetPathSegments(in1...)
DoSetPathSegments ==
  /\ pc = "init"
  /\ uv' = SetPathSegments(uv, in1)
  /\ pc' = "SetPathSegments"
  /\ UNCHANGED <<in1, in2, dv, ov, ret>>

\* got := u.PathSegments()
DoPathSegments ==
  /\ pc = "SetPathSegments"
  /\ ret' = PathSegments(uv)
  /\ pc' = "PathSegments"
  /\ UNCHANGED <<in1, in2, dv, uv, ov>>

NextSegments == DoSetPathSegments \/ DoPathSegments

SpecSegments == InitSegments /\ [][NextSegments]_vars

\* C19: path segment round trip: for every sequence v of byte strings, the
\* empty sequence, empty segments in any place and segments with "/", "%",
\* "?" or "#" included, PathSegments() after SetPathSegments(v...) returns a
\* sequence of the same length with the same elements in the same order.
C19_SegmentRoundTrip ==
  pc = "PathSegments" =>
    /\ Len(ret) = Len(in1)
    /\ \A i \in 1..Len(in1) : ret[i] = in1[i]

\* C19 witness: the segments "", "a/b", "x" came back.
C19_Witness ==
  /\ pc = "PathSegments"
  /\ in1 = << <<>>, <<97, 47, 98>>, <<120>> >>
  /\ ret = in1
  /\ uv.RawPath = <<47, 47, 97, 37, 50, 70, 98, 47, 120>>

-----------------------------------------------------------------------------
(* Verification relationships of a DID document (document.go, with the URL
   of its revision: DID, RawPath, Query and Fragment) *)

\* the octet at the head of an escaped path: [ok, c, rest]
pathOctet(a) ==
  IF Head(a) # 37 \* '%'
  THEN [ok |-> TRUE, c |-> Head(a), rest |-> Tail(a)]
  ELSE IF parseHex(a, 1).err
       THEN [ok |-> FALSE, c |-> 0, rest |-> <<>>]
       ELSE [ok |-> TRUE, c |-> parseHex(a, 1).v, rest |-> From(a, 3)]

\* the loop of pathEqual over the normalized paths without root
RECURSIVE pathEqualOctets(_, _)
pathEqualOctets(a, b) ==
  IF a = <<>> THEN b = <<>>
  ELSE IF b = <<>> THEN FALSE
  ELSE IF ~pathOctet(a).ok \/ ~pathOctet(b).ok THEN FALSE
  ELSE IF pathOctet(a).c # pathOctet(b).c THEN FALSE
  ELSE pathEqualOctets(pathOctet(a).rest, pathOctet(b).rest)

\* pathEqual of the document's revision
Document_pathEqual(a, b) ==
  IF a = b THEN TRUE
  ELSE IF a = <<>> \/ b = <<>> THEN FALSE
  ELSE pathEqualOctets(Tail(pathJoinRoot(a)), Tail(pathJoinRoot(b)))

\* queryEqual; a and b are url.Values: functions of names to value sequences
queryEqual(a, b) ==
  IF Cardinality(DOMAIN a) # Cardinality(DOMAIN b) THEN FALSE
  ELSE \A name \in DOMAIN a :
         LET match == IF name \in DOMAIN b THEN b[name] ELSE <<>> IN
         /\ Len(a[name]) = Len(match)
         /\ \A i \in 1..Len(a[name]) : a[name][i] = match[i]

\* a nil *VerificationRelationship
NilRelationship == [nil |-> TRUE, URIRefs |-> <<>>]

\* base always is the DID of the reference
RefBaseOwnDID(doc, u) == u.DID

\* the DID component u is matched with
RefBase(doc, u) == IF IsRelative(u) THEN doc.Subject ELSE u.DID

\* the index of the first of doc.VerificationMethods from i on that u
\* matches, or 0 when none does
RECURSIVE MatchMethod(_, _, _)
MatchMethod(doc, u, i) ==
  IF i > Len(doc.VerificationMethods) THEN 0
  ELSE IF /\ doc.VerificationMethods[i].ID.Fragment = u.Fragment
          /\ doc.VerificationMethods[i].ID.DID = RefBase(doc, u)
          /\ Document_pathEqual(doc.VerificationMethods[i].ID.RawPath, u.RawPath)
          /\ queryEqual(doc.VerificationMethods[i].ID.Query, u.Query)
       THEN i
       ELSE MatchMethod(doc, u, i + 1)

\* the MatchRefs loop over the URIRefs of one relationship; refs holds
\* pointers into heap, and acc is [perURI, notFound]
RECURSIVE MatchRefs(_, _, _, _)
MatchRefs(doc, heap, refs, acc) ==
  IF refs = <<>> THEN acc
  ELSE IF Head(refs) \in DOMAIN acc.perURI
       THEN MatchRefs(doc, heap, Tail(refs), acc)
  ELSE IF \E k \in 1..Len(acc.notFound) : acc.notFound[k] = Head(refs)
       THEN MatchRefs(doc, heap, Tail(refs), acc)
  ELSE IF MatchMethod(doc, heap[Head(refs)], 1) # 0
       THEN MatchRefs(doc, heap, Tail(refs),
                      [perURI |-> [p \in DOMAIN acc.perURI \cup {Head(refs)} |->
                                     IF p = Head(refs)
                                     THEN MatchMethod(doc, heap[Head(refs)], 1)
                                     ELSE acc.perURI[p]],
                       notFound |-> acc.notFound])
  ELSE MatchRefs(doc, heap, Tail(refs),
                 [perURI |-> acc.perURI,
                  notFound |-> Append(acc.notFound, Head(refs))])

\* the loop over the relationships
RECURSIVE RelationshipsLoop(_, _, _, _)
RelationshipsLoop(doc, heap, relationships, acc) ==
  IF relationships = <<>> THEN acc
  ELSE IF Head(relationships).nil
       THEN RelationshipsLoop(doc, heap, Tail(relationships), acc)
  ELSE RelationshipsLoop(doc, heap, Tail(relationships),
                         MatchRefs(doc, heap, Head(relationships).URIRefs, acc))

\* Document.VerificationMethodRefs; a *VerificationMethod is its index in
\* doc.VerificationMethods
VerificationMethodRefs(doc, heap) ==
  RelationshipsLoop(doc, heap,
                    <<doc.Authentication, doc.AssertionMethod, doc.KeyAgreement,
                      doc.CapabilityInvocation, doc.CapabilityDelegation>>,
                    [perURI |-> <<>>, notFound |-> <<>>])

-----------------------------------------------------------------------------
(* Specification SpecRefs: VerificationMethodRefs on small documents. ov is
   the document, uv the URLs the reference pointers lead to, and ret the
   result. *)

MaxMethods == 2

\* did:example:abc and did:example:xyz
SubjectAbc == [Method |-> <<101, 120, 97, 109, 112, 108, 101>>, SpecID |-> <<97, 98, 99>>]

SubjectXyz == [Method |-> <<101, 120, 97, 109, 112, 108, 101>>, SpecID |-> <<120, 121, 122>>]

\* "key-1" and "key-2"
Key1 == <<107, 101, 121, 45, 49>>

Key2 == <<107, 101, 121, 45, 50>>

NoQuery == <<>>

\* the url.Values of "?v=1"
QueryV1 == [name \in {"v"} |-> <<"1">>]

DocURL(did, path, query, fragment) ==
  [DID |-> did, RawPath |-> path, Query |-> query, Fragment |-> fragment]

\* ids of verification methods: did:example:abc#key-1, did:example:abc#key-2,
\* did:example:xyz#key-1, did:example:abc/a/#key-1, did:example:abc?v=1#key-1
\* and the relative #key-1
MethodIDs ==
  { DocURL(SubjectAbc, <<>>, NoQuery, Key1),
    DocURL(SubjectAbc, <<>>, NoQuery, Key2),
    DocURL(SubjectXyz, <<>>, NoQuery, Key1),
    DocURL(SubjectAbc, <<47, 97, 47>>, NoQuery, Key1),
    DocURL(SubjectAbc, <<>>, QueryV1, Key1),
    DocURL(ZeroDID, <<>>, NoQuery, Key1) }

\* references: #key-1, did:example:abc#key-1, did:example:xyz#key-1,
\* /%61#key-1, #key-2 and ?v=1#key-1
RefURLs ==
  { DocURL(ZeroDID, <<>>, NoQuery, Key1),
    DocURL(SubjectAbc, <<>>, NoQuery, Key1),
    DocURL(SubjectXyz, <<>>, NoQuery, Key1),
    DocURL(ZeroDID, <<47, 37, 54, 49>>, NoQuery, Key1),
    DocURL(ZeroDID, <<>>, NoQuery, Key2),
    DocURL(ZeroDID, <<>>, QueryV1, Key1) }

\* the *URL values in use
Pointers == {1, 2}

Relationship(refs) == [nil |-> FALSE, URIRefs |-> refs]

\* the five relationships: one reference, two references, the same pointers
\* in several relationships, a pointer twice in one relationship, and none
RelationshipLayouts ==
  { <<Relationship(<<1>>), NilRelationship, NilRelationship, NilRelationship, NilRelationship>>,
    <<Relationship(<<1, 2>>), NilRelationship, Relationship(<<>>), NilRelationship, NilRelationship>>,
    <<Relationship(<<1>>), Relationship(<<1>>), Relationship(<<2>>), NilRelationship, Relationship(<<2, 1>>)>>,
    <<NilRelationship, NilRelationship, NilRelationship, Relationship(<<2>>), Relationship(<<2, 2, 1>>)>>,
    <<NilRelationship, NilRelationship, NilRelationship, NilRelationship, NilRelationship>> }

MethodLists ==
  UNION { [1..n -> MethodIDs] : n \in 0..MaxMethods }

Documents ==
  { [Subject |-> s,
     VerificationMethods |-> [i \in 1..Len(ids) |-> [ID |-> ids[i]]],
     Authentication |-> l[1], AssertionMethod |-> l[2], KeyAgreement |-> l[3],
     CapabilityInvocation |-> l[4], CapabilityDelegation |-> l[5]] :
    s \in {SubjectAbc, SubjectXyz}, ids \in MethodLists, l \in RelationshipLayouts }

InitRefs ==
  /\ ov \in Documents
  /\ uv \in [Pointers -> RefURLs]
  /\ in1 = <<>>
  /\ in2 = <<>>
  /\ dv = ZeroDID
  /\ pc = "init"
  /\ ret = <<>>

\* perURI, notFound := doc.VerificationMethodRefs()
DoVerificationMethodRefs ==
  /\ pc = "init"
  /\ ret' = VerificationMethodRefs(ov, uv)
  /\ pc' = "VerificationMethodRefs"
  /\ UNCHANGED <<in1, in2, dv, uv, ov>>

NextRefs == DoVerificationMethodRefs

SpecRefs == InitRefs /\ [][NextRefs]_vars

\* the reference pointers held in any of the five relationships of ov
HeldPointers ==
  { p \in Pointers :
      \E r \in {ov.Authentication, ov.AssertionMethod, ov.KeyAgreement,
                ov.CapabilityInvocation, ov.CapabilityDelegation} :
        ~r.nil /\ \E k \in 1..Len(r.URIRefs) : r.URIRefs[k] = p }

\* u resolved against the Subject of ov
ResolvedDID(u) ==
  IF u.DID = ZeroDID THEN ov.Subject ELSE u.DID

\* the same parameters with the same values in the same order
SameQuery(a, b) ==
  /\ DOMAIN a = DOMAIN b
  /\ \A n \in DOMAIN a : a[n] = b[n]

\* both without a path, or both with one and the cleaned paths have the same
\* decoded segments
SameDocPath(a, b) ==
  /\ (a = <<>>) = (b = <<>>)
  /\ DecodedSegments(a) = DecodedSegments(b)

\* the entries of VerificationMethods with an id equivalent to the resolved u
EquivalentMethods(u) ==
  { i \in 1..Len(ov.VerificationMethods) :
      /\ ov.VerificationMethods[i].ID.DID = ResolvedDID(u)
      /\ SameDocPath(ov.VerificationMethods[i].ID.RawPath, u.RawPath)
      /\ SameQuery(ov.VerificationMethods[i].ID.Query, u.Query)
      /\ ov.VerificationMethods[i].ID.Fragment = u.Fragment }

\* C20: relationship resolution: every reference pointer held in any of the
\* five relationships is a key of perURI with the first entry of
\* VerificationMethods whose id is equivalent to the reference resolved
\* against the Subject, or, when there is no such entry, it is in notFound;
\* nothing else is in perURI or notFound, and no pointer is in both or twice
\* in notFound.
C20_RelationshipResolution ==
  pc = "VerificationMethodRefs" =>
    /\ \A p \in HeldPointers :
         IF EquivalentMethods(uv[p]) # {}
         THEN /\ p \in DOMAIN ret.perURI
              /\ ret.perURI[p] = Least(EquivalentMethods(uv[p]))
              /\ \A k \in 1..Len(ret.notFound) : ret.notFound[k] # p
         ELSE /\ p \notin DOMAIN ret.perURI
              /\ Cardinality({k \in 1..Len(ret.notFound) : ret.notFound[k] = p}) = 1
    /\ DOMAIN ret.perURI \subseteq HeldPointers
    /\ \A k \in 1..Len(ret.notFound) : ret.notFound[k] \in HeldPointers

\* C20 witness: in a document with subject did:example:abc the reference
\* "#key-1", held in three relationships, maps to the second entry, the
\* first one with id did:example:abc#key-1, and the other reference matches
\* no entry.
C20_Witness ==
  /\ pc = "VerificationMethodRefs"
  /\ ov.Subject = SubjectAbc
  /\ Len(ov.VerificationMethods) = 2
  /\ ov.VerificationMethods[1].ID = DocURL(SubjectXyz, <<>>, NoQuery, Key1)
  /\ ov.VerificationMethods[2].ID = DocURL(SubjectAbc, <<>>, NoQuery, Key1)
  /\ ov.AssertionMethod = Relationship(<<1>>)
  /\ ov.CapabilityDelegation = Relationship(<<2, 1>>)
  /\ uv[1] = DocURL(ZeroDID, <<>>, NoQuery, Key1)
  /\ uv[2] = DocURL(ZeroDID, <<>>, NoQuery, Key2)
  /\ DOMAIN ret.perURI = {1}
  /\ ret.perURI[1] = 2
  /\ ret.notFound = <<2>>

-----------------------------------------------------------------------------
(* The index of the embedded verification methods of a document
   (Doc.EmbeddedVerificationMethods). A *VerificationMethod is a pointer
   into a heap of method values. *)

\* a map with the entry s -> m put in
MapPut(perID, s, m) ==
  [k \in DOMAIN perID \cup {s} |-> IF k = s THEN m ELSE perID[k]]

\* the loop that installs doc.VerificationMethods: [err, PerID]
RECURSIVE InstallMethods(_, _, _)
InstallMethods(heap, methods, perID) ==
  IF methods = <<>> THEN [err |-> FALSE, PerID |-> perID]
  ELSE IF URL_String(heap[Head(methods)].ID) \in DOMAIN perID
       THEN [err |-> TRUE, PerID |-> <<>>]
  ELSE InstallMethods(heap, Tail(methods),
                      MapPut(perID, URL_String(heap[Head(methods)].ID), Head(methods)))

\* m0 != m is false: both are *VerificationMethod
SamePointer(heap, m0, m) == m0 = m

\* the loop over the Methods of one relationship: [err, PerID]
RECURSIVE IncludeMethods(_, _, _)
IncludeMethods(heap, methods, perID) ==
  IF methods = <<>> THEN [err |-> FALSE, PerID |-> perID]
  ELSE IF URL_String(heap[Head(methods)].ID) \notin DOMAIN perID
       THEN IncludeMethods(heap, Tail(methods),
                           MapPut(perID, URL_String(heap[Head(methods)].ID), Head(methods)))
  ELSE IF ~SamePointer(heap, perID[URL_String(heap[Head(methods)].ID)], Head(methods))
       THEN [err |-> TRUE, PerID |-> <<>>]
  ELSE IncludeMethods(heap, Tail(methods), perID)

\* the loop over the relationships, from the result acc so far
RECURSIVE IncludeRelationships(_, _, _)
IncludeRelationships(heap, relationships, acc) ==
  IF acc.err \/ relationships = <<>> THEN acc
  ELSE IF Head(relationships).nil
       THEN IncludeRelationships(heap, Tail(relationships), acc)
  ELSE IncludeRelationships(heap, Tail(relationships),
                            IncludeMethods(heap, Head(relationships).Methods, acc.PerID))

\* Doc.EmbeddedVerificationMethods: [err, PerID]
EmbeddedVerificationMethods(doc, heap) ==
  IncludeRelationships(heap,
                       <<doc.Authentication, doc.AssertionMethod, doc.KeyAgreement,
                         doc.CapabilityInvocation, doc.CapabilityDelegation>>,
                       InstallMethods(heap, doc.VerificationMethods, <<>>))

-----------------------------------------------------------------------------
(* Specification SpecEmbedded: EmbeddedVerificationMethods on small
   documents. ov is the document, uv the heap of method values and ret the
   result. *)

MaxListed == 2

\* did:a:b#k and did:a:b#l
EmbeddedIDs ==
  { [DID |-> [Method |-> <<97>>, SpecID |-> <<98>>], RawPath |-> <<>>,
     RawQuery |-> <<>>, RawFragment |-> <<35, 107>>],
    [DID |-> [Method |-> <<97>>, SpecID |-> <<98>>], RawPath |-> <<>>,
     RawQuery |-> <<>>, RawFragment |-> <<35, 108>>] }

\* method values: an id and the rest of the content
EmbeddedMethodValues ==
  { [ID |-> id, Type |-> t] : id \in EmbeddedIDs, t \in {"JsonWebKey2020", "Multikey"} }

MethodPointers == {1, 2, 3}

NilMethods == [nil |-> TRUE, Methods |-> <<>>]

WithMethods(ms) == [nil |-> FALSE, Methods |-> ms]

\* the five relationships: none, one embedded method, two, a pointer in two
\* relationships, and all three methods
EmbeddedLayouts ==
  { <<NilMethods, NilMethods, NilMethods, NilMethods, NilMethods>>,
    <<WithMethods(<<3>>), NilMethods, NilMethods, NilMethods, NilMethods>>,
    <<WithMethods(<<2>>), NilMethods, WithMethods(<<3>>), NilMethods, NilMethods>>,
    <<WithMethods(<<>>), WithMethods(<<3>>), NilMethods, NilMethods, WithMethods(<<3>>)>>,
    <<NilMethods, NilMethods, NilMethods, WithMethods(<<1, 2>>), WithMethods(<<3>>)>> }

EmbeddedDocs ==
  { [VerificationMethods |-> ms,
     Authentication |-> l[1], AssertionMethod |-> l[2], KeyAgreement |-> l[3],
     CapabilityInvocation |-> l[4], CapabilityDelegation |-> l[5]] :
    ms \in UNION { [1..n -> MethodPointers] : n \in 0..MaxListed },
    l \in EmbeddedLayouts }

InitEmbedded ==
  /\ ov \in EmbeddedDocs
  /\ uv \in [MethodPointers -> EmbeddedMethodValues]
  /\ in1 = <<>>
  /\ in2 = <<>>
  /\ dv = ZeroDID
  /\ pc = "init"
  /\ ret = <<>>

\* e, err := doc.EmbeddedVerificationMethods()
DoEmbeddedVerificationMethods ==
  /\ pc = "init"
  /\ ret' = EmbeddedVerificationMethods(ov, uv)
  /\ pc' = "EmbeddedVerificationMethods"
  /\ UNCHANGED <<in1, in2, dv, uv, ov>>

NextEmbedded == DoEmbeddedVerificationMethods

SpecEmbedded == InitEmbedded /\ [][NextEmbedded]_vars

\* the indexed entries of ov, one for each place a method is held at: the
\* method values in order
IndexedEntries ==
  LET ptrs == ov.VerificationMethods \o ov.Authentication.Methods
              \o ov.AssertionMethod.Methods \o ov.KeyAgreement.Methods
              \o ov.CapabilityInvocation.Methods \o ov.CapabilityDelegation.Methods
  IN [i \in 1..Len(ptrs) |-> uv[ptrs[i]]]

\* two indexed entries share an id and differ in content
IdConflict ==
  \E i, j \in 1..Len(IndexedEntries) :
    /\ IndexedEntries[i].ID = IndexedEntries[j].ID
    /\ IndexedEntries[i] # IndexedEntries[j]

\* C21: the index of EmbeddedVerificationMethods: an error when two indexed
\* entries share an id and differ in content; otherwise, entries with the
\* same id and the same content included, success with exactly one index
\* entry for each id, which leads to a method with that id.
C21_IndexPerID ==
  pc = "EmbeddedVerificationMethods" =>
    IF IdConflict THEN ret.err
    ELSE /\ ~ret.err
         /\ DOMAIN ret.PerID =
              {URL_String(IndexedEntries[i].ID) : i \in 1..Len(IndexedEntries)}
         /\ \A s \in DOMAIN ret.PerID : URL_String(uv[ret.PerID[s]].ID) = s

-----------------------------------------------------------------------------
(* JSON of the verification methods (document.go). A JSON object is the
   sequence of its members in the order of the text, each the string
   literal of its name and the raw text of its value; the white space
   between the tokens is left out. strconv.AppendQuote and the decoding of
   encoding/json are modelled on octets, for strings of ASCII only. *)

\* strconv.AppendQuote of one ASCII octet c: Go escapes, not JSON escapes
quoteOctet(c) ==
  IF c = 34 THEN <<92, 34>>                \* \"
  ELSE IF c = 92 THEN <<92, 92>>           \* \\
  ELSE IF c \in 32..126 THEN <<c>>
  ELSE IF c = 7 THEN <<92, 97>>            \* \a
  ELSE IF c = 8 THEN <<92, 98>>            \* \b
  ELSE IF c = 12 THEN <<92, 102>>          \* \f
  ELSE IF c = 10 THEN <<92, 110>>          \* \n
  ELSE IF c = 13 THEN <<92, 114>>          \* \r
  ELSE IF c = 9 THEN <<92, 116>>           \* \t
  ELSE IF c = 11 THEN <<92, 118>>          \* \v
  ELSE <<92, 120, hexTableLower[(c \div 16) + 1], hexTableLower[(c % 16) + 1]>>  \* \xNN

RECURSIVE quoteOctets(_)
quoteOctets(s) == IF s = <<>> THEN <<>> ELSE quoteOctet(Head(s)) \o quoteOctets(Tail(s))

\* strconv.AppendQuote(nil, s)
AppendQuote(s) == <<34>> \o quoteOctets(s) \o <<34>>

\* the value of the four hex digits of s from the Go index i, or -1
hex4(s, i) ==
  IF i + 4 > Len(s) THEN 0 - 1
  ELSE IF \E k \in 0..3 : ~IsHex(At(s, i + k)) THEN 0 - 1
  ELSE HexVal(At(s, i)) * 4096 + HexVal(At(s, i + 1)) * 256
       + HexVal(At(s, i + 2)) * 16 + HexVal(At(s, i + 3))

\* the content c of a JSON string literal, decoded by encoding/json:
\* [ok, s]. Code points from U+0080 on are not among the inputs.
RECURSIVE jsonUnquote(_, _)
jsonUnquote(c, out) ==
  IF c = <<>> THEN [ok |-> TRUE, s |-> out]
  ELSE IF Head(c) < 32 \/ Head(c) = 34 THEN [ok |-> FALSE, s |-> <<>>]
  ELSE IF Head(c) # 92 THEN jsonUnquote(Tail(c), Append(out, Head(c)))
  ELSE IF Len(c) < 2 THEN [ok |-> FALSE, s |-> <<>>]
  ELSE IF c[2] \in {34, 92, 47} THEN jsonUnquote(From(c, 2), Append(out, c[2]))
  ELSE IF c[2] = 98 THEN jsonUnquote(From(c, 2), Append(out, 8))
  ELSE IF c[2] = 102 THEN jsonUnquote(From(c, 2), Append(out, 12))
  ELSE IF c[2] = 110 THEN jsonUnquote(From(c, 2), Append(out, 10))
  ELSE IF c[2] = 114 THEN jsonUnquote(From(c, 2), Append(out, 13))
  ELSE IF c[2] = 116 THEN jsonUnquote(From(c, 2), Append(out, 9))
  ELSE IF c[2] = 117 /\ hex4(c, 2) \in 0..127
       THEN jsonUnquote(From(c, 6), Append(out, hex4(c, 2)))
  ELSE [ok |-> FALSE, s |-> <<>>]

\* raw is a JSON string literal
IsQuoted(raw) == Len(raw) >= 2 /\ Head(raw) = 34 /\ raw[Len(raw)] = 34

\* the end of json.Unmarshal(raw, &s): q is the decoded literal
UnmarshalStringUnquoted(old, q) ==
  IF q.ok THEN [err |-> FALSE, s |-> q.s] ELSE [err |-> TRUE, s |-> old]

\* json.Unmarshal(raw, &s) for a string s with the value old: [err, s]
UnmarshalString(raw, old) ==
  IF raw = <<110, 117, 108, 108>> THEN [err |-> FALSE, s |-> old]   \* null
  ELSE IF ~IsQuoted(raw) THEN [err |-> TRUE, s |-> old]
  ELSE UnmarshalStringUnquoted(old, jsonUnquote(Slice(raw, 1, Len(raw) - 1), <<>>))

\* the raw texts of the JSON values without a string at the top: 1, null
\* and {"x":1}
JSONLiterals ==
  { <<49>>, <<110, 117, 108, 108>>, <<123, 34, 120, 34, 58, 49, 125>> }

\* raw is the text of a JSON value
IsJSONValue(raw) ==
  IF raw # <<>> /\ Head(raw) = 34
  THEN IsQuoted(raw) /\ jsonUnquote(Slice(raw, 1, Len(raw) - 1), <<>>).ok
  ELSE raw \in JSONLiterals

\* the members are well-formed JSON
IsJSONObject(members) ==
  \A i \in 1..Len(members) :
    /\ IsQuoted(members[i].name)
    /\ jsonUnquote(Slice(members[i].name, 1, Len(members[i].name) - 1), <<>>).ok
    /\ IsJSONValue(members[i].value)

\* the entries of a well-formed object stored into the map additional, the
\* entries that are in the map already kept
RECURSIVE StoreMembers(_, _)
StoreMembers(members, additional) ==
  IF members = <<>> THEN additional
  ELSE StoreMembers(Tail(members),
                    MapPut(additional,
                           jsonUnquote(Slice(Head(members).name, 1,
                                             Len(Head(members).name) - 1), <<>>).s,
                           Head(members).value))

\* json.Unmarshal(bytes, &additional) of a JSON object: [err, Additional]
UnmarshalMap(members, additional) ==
  IF ~IsJSONObject(members) THEN [err |-> TRUE, Additional |-> additional]
  ELSE [err |-> FALSE, Additional |-> StoreMembers(members, additional)]

\* "id", "type" and "controller"
PropID == <<105, 100>>

PropType == <<116, 121, 112, 101>>

PropController == <<99, 111, 110, 116, 114, 111, 108, 108, 101, 114>>

ZeroMethod == [ID |-> ZeroURL, Type |-> <<>>, Controller |-> ZeroDID, Additional |-> <<>>]

\* the end of URL.UnmarshalJSON: p is the result of ParseURL
UnmarshalURLParsed(old, p) ==
  IF p.err THEN [err |-> TRUE, v |-> old] ELSE [err |-> FALSE, v |-> p.url]

\* URL.UnmarshalJSON from the result str of json.Unmarshal(bytes, &s)
UnmarshalURLString(old, str) ==
  IF str.err THEN [err |-> TRUE, v |-> old]
  ELSE UnmarshalURLParsed(old, ParseURL(str.s))

\* json.Unmarshal(raw, &u) for a URL u with the value old, which leaves u
\* alone on null and calls URL.UnmarshalJSON otherwise: [err, v]
UnmarshalURL(raw, old) ==
  IF raw = <<110, 117, 108, 108>> THEN [err |-> FALSE, v |-> old]
  ELSE UnmarshalURLString(old, UnmarshalString(raw, <<>>))

\* the end of DID.UnmarshalJSON: p is the result of Parse
UnmarshalDIDParsed(old, p) ==
  IF p.err THEN [err |-> TRUE, v |-> old] ELSE [err |-> FALSE, v |-> p.did]

\* DID.UnmarshalJSON from the result str of json.Unmarshal(bytes, &s)
UnmarshalDIDString(old, str) ==
  IF str.err THEN [err |-> TRUE, v |-> old]
  ELSE UnmarshalDIDParsed(old, Parse(str.s))

\* json.Unmarshal(raw, &d) for a DID d with the value old: [err, v]
UnmarshalDID(raw, old) ==
  IF raw = <<110, 117, 108, 108>> THEN [err |-> FALSE, v |-> old]
  ELSE UnmarshalDIDString(old, UnmarshalString(raw, <<>>))

\* the map without the key name
MapDelete(additional, name) == [k \in DOMAIN additional \ {name} |-> additional[k]]

\* the result r of a decoding as [err, v, s]: v a URL or a DID, s a string
FieldValue(r) == [err |-> r.err, v |-> r.v, s |-> <<>>]

FieldString(r) == [err |-> r.err, v |-> <<>>, s |-> r.s]

\* json.Unmarshal(raw, pointer) with the pointer to the field of m that
\* goes with the name
UnmarshalField(m, name, raw) ==
  IF name = PropID THEN FieldValue(UnmarshalURL(raw, m.ID))
  ELSE IF name = PropType THEN FieldString(UnmarshalString(raw, m.Type))
  ELSE FieldValue(UnmarshalDID(raw, m.Controller))

\* m with the field of the name set from the result r of UnmarshalField
WithField(m, name, r) ==
  IF name = PropID THEN [m EXCEPT !.ID = r.v]
  ELSE IF name = PropType THEN [m EXCEPT !.Type = r.s]
  ELSE [m EXCEPT !.Controller = r.v]

\* the end of popPropertyInto: r is the result of UnmarshalField
popStored(m, name, r) ==
  [err |-> r.err,
   m |-> [WithField(m, name, r) EXCEPT !.Additional = MapDelete(m.Additional, name)]]

\* VerificationMethod.popPropertyInto with the pointer to the field of the
\* name: [err, m]
popPropertyInto(m, name) ==
  IF name \notin DOMAIN m.Additional THEN [err |-> TRUE, m |-> m]
  ELSE popStored(m, name, UnmarshalField(m, name, m.Additional[name]))

\* the pops of UnmarshalJSON for the names in turn, from the result r of
\* the step before
RECURSIVE popProperties(_, _)
popProperties(r, names) ==
  IF r.err \/ names = <<>> THEN r
  ELSE popProperties(popPropertyInto(r.m, Head(names)), Tail(names))

\* the end of UnmarshalJSON: r is the result of json.Unmarshal into
\* m.Additional
UnmarshalJSONStored(m, r) ==
  IF r.err THEN [err |-> TRUE, m |-> m]
  ELSE popProperties([err |-> FALSE, m |-> [m EXCEPT !.Additional = r.Additional]],
                     <<PropID, PropType, PropController>>)

\* VerificationMethod.UnmarshalJSON on the value m: [err, m]
Method_UnmarshalJSON(m, members) ==
  UnmarshalJSONStored(m, UnmarshalMap(members, m.Additional))

\* the members MarshalJSON writes for the properties in the order of the
\* range over m.Additional
RECURSIVE MarshalAdditional(_, _)
MarshalAdditional(m, order) ==
  IF order = <<>> THEN <<>>
  ELSE << [name |-> AppendQuote(Head(order)), value |-> m.Additional[Head(order)]] >>
       \o MarshalAdditional(m, Tail(order))

\* VerificationMethod.MarshalJSON; order holds the keys of m.Additional in
\* the order the range takes them: [err, members]
Method_MarshalJSON(m, order) ==
  IF \E k \in DOMAIN m.Additional : k \in {PropID, PropType, PropController}
  THEN [err |-> TRUE, members |-> <<>>]
  ELSE [err |-> FALSE,
        members |-> << [name |-> <<34>> \o PropID \o <<34>>,
                        value |-> AppendQuote(URL_String(m.ID))],
                       [name |-> <<34>> \o PropType \o <<34>>,
                        value |-> AppendQuote(m.Type)],
                       [name |-> <<34>> \o PropController \o <<34>>,
                        value |-> AppendQuote(String(m.Controller))] >>
                    \o MarshalAdditional(m, order)]

-----------------------------------------------------------------------------
(* Specification SpecMethodJSON: the JSON codec of VerificationMethod. in1
   is the JSON object to decode and uv the VerificationMethod; in2 is the
   JSON written, or the second object decoded into the same value, and ov
   the value of the second decoding. *)

MaxExtra == 2

Member(n, v) == [name |-> n, value |-> v]

\* "id": "did:a:b#k" or null, or none
IDMembers ==
  { << Member(<<34>> \o PropID \o <<34>>,
              <<34, 100, 105, 100, 58, 97, 58, 98, 35, 107, 34>>) >>,
    << Member(<<34>> \o PropID \o <<34>>, <<110, 117, 108, 108>>) >>,
    << >> }

\* "type": "T" or "\u0007"
TypeMembers ==
  { << Member(<<34>> \o PropType \o <<34>>, <<34, 84, 34>>) >>,
    << Member(<<34>> \o PropType \o <<34>>, <<34, 92, 117, 48, 48, 48, 55, 34>>) >> }

\* "controller": "did:a:b" or 1
ControllerMembers ==
  { << Member(<<34>> \o PropController \o <<34>>,
              <<34, 100, 105, 100, 58, 97, 58, 98, 34>>) >>,
    << Member(<<34>> \o PropController \o <<34>>, <<49>>) >> }

\* the names "k", "p", "\u0007" and "id", which is "id"
ExtraNames ==
  { <<34, 107, 34>>, <<34, 112, 34>>, <<34, 92, 117, 48, 48, 48, 55, 34>>,
    <<34, 92, 117, 48, 48, 54, 57, 100, 34>> }

\* the values 1, "z" and {"x":1}
ExtraValues ==
  { <<49>>, <<34, 122, 34>>, <<123, 34, 120, 34, 58, 49, 125>> }

\* up to max members more
ExtraMembers(max) ==
  UNION { [1..n -> {Member(n1, v1) : n1 \in ExtraNames, v1 \in ExtraValues}] :
          n \in 0..max }

\* the objects read, the core in front or at the end, with up to max
\* members more
MethodObjects(max) ==
  { i \o t \o c \o x : i \in IDMembers, t \in TypeMembers, c \in ControllerMembers,
                       x \in ExtraMembers(max) }
  \cup { x \o c \o t \o i : i \in IDMembers, t \in TypeMembers, c \in ControllerMembers,
                            x \in ExtraMembers(max) }

\* the objects of a second UnmarshalJSON on the same value
SecondObjects ==
  { i \o t \o c \o x : i \in IDMembers, t \in TypeMembers, c \in ControllerMembers,
                       x \in { <<>>, << Member(<<34, 112, 34>>, <<49>>) >> } }

\* the orders a range over a map with the keys S can take
Orders(S) ==
  { f \in [1..Cardinality(S) -> S] : \A i, j \in 1..Cardinality(S) : f[i] = f[j] => i = j }

InitMethodJSON ==
  /\ pc = "init"
  /\ in1 \in MethodObjects(MaxExtra)
  /\ uv = ZeroMethod
  /\ in2 = <<>>
  /\ dv = ZeroDID
  /\ ov = ZeroMethod
  /\ ret = [err |-> FALSE]

\* err := m.UnmarshalJSON(in1) on a new value m
DoUnmarshalJSON ==
  /\ pc = "init"
  /\ \E r \in {Method_UnmarshalJSON(uv, in1)} :
       /\ uv' = r.m
       /\ ret' = [err |-> r.err]
  /\ pc' = "UnmarshalJSON"
  /\ UNCHANGED <<in1, in2, dv, ov>>

\* in2, err := m.MarshalJSON() of the decoded value
DoMarshalJSON ==
  /\ pc = "UnmarshalJSON"
  /\ ~ret.err
  /\ \E order \in Orders(DOMAIN uv.Additional) :
       \E r \in {Method_MarshalJSON(uv, order)} :
         /\ in2' = r.members
         /\ ret' = [err |-> r.err]
  /\ pc' = "MarshalJSON"
  /\ UNCHANGED <<in1, dv, uv, ov>>

\* err := o.UnmarshalJSON(in2) on a new value o, of the JSON written
DoUnmarshalOutput ==
  /\ pc = "MarshalJSON"
  /\ ~ret.err
  /\ \E r \in {Method_UnmarshalJSON(ZeroMethod, in2)} :
       /\ ov' = r.m
       /\ ret' = [err |-> r.err]
  /\ pc' = "UnmarshalOutput"
  /\ UNCHANGED <<in1, in2, dv, uv>>

\* err := m.UnmarshalJSON(in2) on the same value m, with another object;
\* uv keeps the value of before and ov is the value of after
DoUnmarshalSecond ==
  /\ pc = "UnmarshalJSON"
  /\ ~ret.err
  /\ \E o \in SecondObjects :
       /\ o # in1
       /\ in2' = o
       /\ \E r \in {Method_UnmarshalJSON(uv, o)} :
            /\ ov' = r.m
            /\ ret' = [err |-> r.err]
  /\ pc' = "UnmarshalSecond"
  /\ UNCHANGED <<in1, dv, uv>>

NextMethodJSON ==
  \/ DoUnmarshalJSON
  \/ DoMarshalJSON
  \/ DoUnmarshalOutput
  \/ DoUnmarshalSecond

SpecMethodJSON == InitMethodJSON /\ [][NextMethodJSON]_vars

\* the name a member of a JSON object has, <<0>> for a malformed one
NameOf(member) ==
  IF IsQuoted(member.name)
     /\ jsonUnquote(Slice(member.name, 1, Len(member.name) - 1), <<>>).ok
  THEN jsonUnquote(Slice(member.name, 1, Len(member.name) - 1), <<>>).s
  ELSE <<0>>

CoreNames == {PropID, PropType, PropController}

\* the extension properties of a JSON object: the names other than "id",
\* "type" and "controller"
ExtensionNames(members) ==
  {NameOf(members[i]) : i \in 1..Len(members)} \ CoreNames

\* the map holds exactly the extension properties of the object, each with
\* the raw value of a member of that name
HoldsExtensions(additional, members) ==
  /\ DOMAIN additional = ExtensionNames(members)
  /\ \A k \in DOMAIN additional :
       \E i \in 1..Len(members) :
         NameOf(members[i]) = k /\ members[i].value = additional[k]

C22_AdditionalAfterDecode ==
  (pc = "UnmarshalJSON" /\ ~ret.err) => HoldsExtensions(uv.Additional, in1)

\* C30: no residue of earlier content: after two successful UnmarshalJSON
\* in a row on the same value, with two different objects, Additional holds
\* exactly the extension properties of the second object.
C30_NoResidue ==
  (pc = "UnmarshalSecond" /\ ~ret.err) => HoldsExtensions(ov.Additional, in2)

-----------------------------------------------------------------------------
(* JSON of the services (document.go). The ID of a service and the URI
   references of its endpoint are url.URL values of the Go library; they
   are held as the text their String method gives. *)

\* "serviceEndpoint"
PropServiceEndpoint ==
  <<115, 101, 114, 118, 105, 99, 101, 69, 110, 100, 112, 111, 105, 110, 116>>

\* json.Marshal of one ASCII octet c of a string
jsonOctet(c) ==
  IF c = 34 THEN <<92, 34>>
  ELSE IF c = 92 THEN <<92, 92>>
  ELSE IF c = 10 THEN <<92, 110>>
  ELSE IF c = 13 THEN <<92, 114>>
  ELSE IF c = 9 THEN <<92, 116>>
  ELSE IF c = 8 THEN <<92, 98>>
  ELSE IF c = 12 THEN <<92, 102>>
  ELSE IF c < 32 \/ c \in {60, 62, 38}     \* control, '<', '>', '&'
       THEN <<92, 117, 48, 48, hexTableLower[(c \div 16) + 1], hexTableLower[(c % 16) + 1]>>
  ELSE <<c>>

RECURSIVE jsonOctets(_)
jsonOctets(s) == IF s = <<>> THEN <<>> ELSE jsonOctet(Head(s)) \o jsonOctets(Tail(s))

\* json.Marshal(s) of a string s
jsonMarshalString(s) == <<34>> \o jsonOctets(s) \o <<34>>

\* the elements of a JSON array joined: '[' and ',' and ']'
RECURSIVE joinArray(_, _)
joinArray(buf, elements) ==
  IF elements = <<>> THEN Append(buf, 93)
  ELSE joinArray((IF Len(buf) > 1 THEN Append(buf, 44) ELSE buf) \o Head(elements),
                 Tail(elements))

\* the AppendQuote of each
quoteEach(ss) == [i \in 1..Len(ss) |-> AppendQuote(ss[i])]

\* ServiceEndpoint.MarshalJSON: [err, raw]
Endpoint_MarshalJSON(e) ==
  IF Len(e.URIRefs) = 0 /\ Len(e.Maps) = 0 THEN [err |-> TRUE, raw |-> <<>>]
  ELSE IF Len(e.URIRefs) = 1 /\ Len(e.Maps) = 0
       THEN [err |-> FALSE, raw |-> jsonMarshalString(e.URIRefs[1])]
  ELSE IF Len(e.URIRefs) = 0 /\ Len(e.Maps) = 1
       THEN [err |-> FALSE, raw |-> e.Maps[1]]
  ELSE [err |-> FALSE, raw |-> joinArray(<<91>>, quoteEach(e.URIRefs) \o e.Maps)]

\* the types written as an array always
MarshalTypesArray(types) == joinArray(<<91>>, quoteEach(types))

\* the "type" value Service.MarshalJSON writes for one or more types
MarshalTypes(types) ==
  IF Len(types) = 1 THEN AppendQuote(types[1])
  ELSE joinArray(<<91>>, quoteEach(types))

\* the members Service.MarshalJSON writes for the properties in the order
\* of the range over srv.Additional
RECURSIVE Service_MarshalAdditional(_, _)
Service_MarshalAdditional(srv, order) ==
  IF order = <<>> THEN <<>>
  ELSE << [name |-> AppendQuote(Head(order)), value |-> srv.Additional[Head(order)]] >>
       \o Service_MarshalAdditional(srv, Tail(order))

\* a MarshalJSON that stops at the key "id" only
Service_MarshalJSONIdOnly(srv, order, endpoint) ==
  IF Len(srv.Types) = 0 THEN [err |-> TRUE, why |-> "type", members |-> <<>>]
  ELSE IF endpoint.err THEN [err |-> TRUE, why |-> "serviceEndpoint", members |-> <<>>]
  ELSE IF PropID \in DOMAIN srv.Additional
       THEN [err |-> TRUE, why |-> "additional", members |-> <<>>]
  ELSE [err |-> FALSE, why |-> "",
        members |-> << [name |-> <<34>> \o PropID \o <<34>>, value |-> AppendQuote(srv.ID)],
                       [name |-> <<34>> \o PropType \o <<34>>,
                        value |-> MarshalTypes(srv.Types)],
                       [name |-> <<34>> \o PropServiceEndpoint \o <<34>>,
                        value |-> endpoint.raw] >>
                    \o Service_MarshalAdditional(srv, order)]

\* Service.MarshalJSON from the result endpoint of srv.Endpoint.MarshalJSON;
\* order holds the keys of srv.Additional in the order the range takes
\* them: [err, why, members] with the cause of the error in why
Service_MarshalJSONEndpoint(srv, order, endpoint) ==
  IF Len(srv.Types) = 0 THEN [err |-> TRUE, why |-> "type", members |-> <<>>]
  ELSE IF endpoint.err THEN [err |-> TRUE, why |-> "serviceEndpoint", members |-> <<>>]
  ELSE IF \E k \in DOMAIN srv.Additional : k \in {PropID, PropType, PropServiceEndpoint}
       THEN [err |-> TRUE, why |-> "additional", members |-> <<>>]
  ELSE [err |-> FALSE, why |-> "",
        members |-> << [name |-> <<34>> \o PropID \o <<34>>, value |-> AppendQuote(srv.ID)],
                       [name |-> <<34>> \o PropType \o <<34>>,
                        value |-> MarshalTypes(srv.Types)],
                       [name |-> <<34>> \o PropServiceEndpoint \o <<34>>,
                        value |-> endpoint.raw] >>
                    \o Service_MarshalAdditional(srv, order)]

\* Service.MarshalJSON
Service_MarshalJSON(srv, order) ==
  Service_MarshalJSONEndpoint(srv, order, Endpoint_MarshalJSON(srv.Endpoint))

-----------------------------------------------------------------------------
(* Service.UnmarshalJSON and ServiceEndpoint.UnmarshalJSON (document.go).
   The url.URL of a service and of an endpoint is held as the reference
   text it prints. *)

\* the elements of the text s between '[' and ']' of a JSON array, split at
\* the commas outside of strings and outside of nested values, as
\* encoding/json scans them: [ok, elements]
RECURSIVE splitElements(_, _, _, _, _)
splitElements(s, cur, out, depth, inStr) ==
  IF s = <<>>
  THEN IF inStr \/ depth # 0 THEN [ok |-> FALSE, elements |-> <<>>]
       ELSE IF cur = <<>> THEN [ok |-> out = <<>>, elements |-> <<>>]
       ELSE [ok |-> TRUE, elements |-> Append(out, cur)]
  ELSE IF inStr
  THEN IF Head(s) = 92 /\ Len(s) >= 2
       THEN splitElements(From(s, 2), cur \o <<92, s[2]>>, out, depth, TRUE)
       ELSE splitElements(Tail(s), Append(cur, Head(s)), out, depth, Head(s) # 34)
  ELSE IF Head(s) = 34
  THEN splitElements(Tail(s), Append(cur, 34), out, depth, TRUE)
  ELSE IF Head(s) \in {91, 123}
  THEN splitElements(Tail(s), Append(cur, Head(s)), out, depth + 1, FALSE)
  ELSE IF Head(s) \in {93, 125}
  THEN IF depth = 0 THEN [ok |-> FALSE, elements |-> <<>>]
       ELSE splitElements(Tail(s), Append(cur, Head(s)), out, depth - 1, FALSE)
  ELSE IF Head(s) = 44 /\ depth = 0
  THEN IF cur = <<>> THEN [ok |-> FALSE, elements |-> <<>>]
       ELSE splitElements(Tail(s), <<>>, Append(out, cur), 0, FALSE)
  ELSE splitElements(Tail(s), Append(cur, Head(s)), out, depth, FALSE)

\* raw is the text of a JSON value that is not an array: a string, {} or
\* one of JSONLiterals
IsJSONElement(raw) == IsJSONValue(raw) \/ raw = <<123, 125>>

\* the end of the scan of an array: split holds its elements
ArrayOfSplit(split) ==
  IF split.ok /\ \A i \in 1..Len(split.elements) : IsJSONElement(split.elements[i])
  THEN split
  ELSE [ok |-> FALSE, elements |-> <<>>]

\* json.Unmarshal(raw, &set) for a set []json.RawMessage: [ok, elements]
UnmarshalRawArray(raw) ==
  IF Len(raw) < 2 \/ Head(raw) # 91 \/ raw[Len(raw)] # 93
  THEN [ok |-> FALSE, elements |-> <<>>]
  ELSE ArrayOfSplit(splitElements(Slice(raw, 1, Len(raw) - 1), <<>>, <<>>, 0, FALSE))

\* raw is the text of a JSON value
IsJSONText(raw) ==
  IF raw # <<>> /\ Head(raw) = 91 THEN UnmarshalRawArray(raw).ok
  ELSE IsJSONElement(raw)

\* json.Unmarshal(bytes, &srv.Additional) of a JSON object: [err, Additional]
UnmarshalServiceMap(members, additional) ==
  IF \E i \in 1..Len(members) :
       \/ ~IsQuoted(members[i].name)
       \/ ~jsonUnquote(Slice(members[i].name, 1, Len(members[i].name) - 1), <<>>).ok
       \/ ~IsJSONText(members[i].value)
  THEN [err |-> TRUE, Additional |-> additional]
  ELSE [err |-> FALSE, Additional |-> StoreMembers(members, additional)]

\* url.Parse(s) for a reference s without query: an error for a control
\* octet, for a colon in front and for a '%' without two hexadecimal digits
\* after it: [err, u]
url_Parse(s) ==
  IF \/ \E i \in 1..Len(s) : s[i] < 32 \/ s[i] = 127
     \/ (s # <<>> /\ Head(s) = 58)
     \/ \E i \in 1..Len(s) :
          s[i] = 37 /\ (i + 2 > Len(s) \/ ~IsHex(s[i + 1]) \/ ~IsHex(s[i + 2]))
  THEN [err |-> TRUE, u |-> <<>>]
  ELSE [err |-> FALSE, u |-> s]

\* the end of the decoding of a string into a URL: str is the result of
\* json.Unmarshal into a string
ParseUnmarshalled(str) ==
  IF str.err THEN [err |-> TRUE, u |-> <<>>] ELSE url_Parse(str.s)

\* the strings of the elements decoded into the slice of strings; null
\* leaves the empty string: [err, strings]
RECURSIVE UnmarshalStringElements(_, _)
UnmarshalStringElements(elements, out) ==
  IF elements = <<>> THEN [err |-> FALSE, strings |-> out]
  ELSE IF UnmarshalString(Head(elements), <<>>).err THEN [err |-> TRUE, strings |-> out]
  ELSE UnmarshalStringElements(Tail(elements),
                               Append(out, UnmarshalString(Head(elements), <<>>).s))

\* the "type" of Service.UnmarshalJSON from the array read: [err, Types]
UnmarshalTypesArray(old, set) ==
  IF ~set.ok THEN [err |-> TRUE, Types |-> old]
  ELSE IF UnmarshalStringElements(set.elements, <<>>).err
       THEN [err |-> TRUE, Types |-> old]
  ELSE IF Len(set.elements) = 0 THEN [err |-> TRUE, Types |-> <<>>]
  ELSE [err |-> FALSE, Types |-> UnmarshalStringElements(set.elements, <<>>).strings]

\* the "type" of Service.UnmarshalJSON from the string read: [err, Types]
UnmarshalTypesString(str) == [err |-> str.err, Types |-> << str.s >>]

\* the "type" of Service.UnmarshalJSON: [err, Types]
UnmarshalTypes(raw, old) ==
  IF Head(raw) = 34 THEN UnmarshalTypesString(UnmarshalString(raw, <<>>))
  ELSE IF Head(raw) = 91 THEN UnmarshalTypesArray(old, UnmarshalRawArray(raw))
  ELSE [err |-> TRUE, Types |-> old]

\* the loop of ServiceEndpoint.UnmarshalJSON over the entries of the array
RECURSIVE UnmarshalEntries(_, _)
RECURSIVE UnmarshalEntryURI(_, _, _)
UnmarshalEntryURI(set, e, p) ==
  IF p.err THEN [err |-> TRUE, e |-> e]
  ELSE UnmarshalEntries(Tail(set), [e EXCEPT !.URIRefs = Append(@, p.u)])

UnmarshalEntries(set, e) ==
  IF set = <<>> THEN [err |-> FALSE, e |-> e]
  ELSE IF Head(Head(set)) = 34
       THEN UnmarshalEntryURI(set, e, ParseUnmarshalled(UnmarshalString(Head(set), <<>>)))
  ELSE IF Head(Head(set)) = 123
       THEN UnmarshalEntries(Tail(set), [e EXCEPT !.Maps = Append(@, Head(set))])
  ELSE [err |-> TRUE, e |-> e]

\* ServiceEndpoint.UnmarshalJSON from the array read
Endpoint_UnmarshalArray(set) ==
  IF ~set.ok \/ Len(set.elements) = 0
  THEN [err |-> TRUE, e |-> [URIRefs |-> <<>>, Maps |-> <<>>]]
  ELSE UnmarshalEntries(set.elements, [URIRefs |-> <<>>, Maps |-> <<>>])

\* ServiceEndpoint.UnmarshalJSON from the URI parsed of a single string
Endpoint_UnmarshalSingle(p) ==
  IF p.err THEN [err |-> TRUE, e |-> [URIRefs |-> <<>>, Maps |-> <<>>]]
  ELSE [err |-> FALSE, e |-> [URIRefs |-> << p.u >>, Maps |-> <<>>]]

\* ServiceEndpoint.UnmarshalJSON: [err, e]
Endpoint_UnmarshalJSON(bytes) ==
  IF Head(bytes) = 34
  THEN Endpoint_UnmarshalSingle(ParseUnmarshalled(UnmarshalString(bytes, <<>>)))
  ELSE IF Head(bytes) = 123
  THEN [err |-> FALSE, e |-> [URIRefs |-> <<>>, Maps |-> << bytes >>]]
  ELSE IF Head(bytes) = 91 THEN Endpoint_UnmarshalArray(UnmarshalRawArray(bytes))
  ELSE [err |-> TRUE, e |-> [URIRefs |-> <<>>, Maps |-> <<>>]]

\* Service.UnmarshalJSON from "serviceEndpoint" on: raw is its value
Service_UnmarshalEndpoint(srv, r) ==
  [err |-> r.err, why |-> IF r.err THEN "serviceEndpoint" ELSE "",
   srv |-> [srv EXCEPT !.Endpoint = r.e,
                       !.Additional = MapDelete(@, PropServiceEndpoint)]]

\* Service.UnmarshalJSON from "type" on: t is the result for the types
Service_UnmarshalTyped(srv, t) ==
  IF t.err
  THEN [err |-> TRUE, why |-> "type",
        srv |-> [srv EXCEPT !.Types = t.Types, !.Additional = MapDelete(@, PropType)]]
  ELSE IF PropServiceEndpoint \notin DOMAIN srv.Additional
  THEN [err |-> TRUE, why |-> "no serviceEndpoint",
        srv |-> [srv EXCEPT !.Types = t.Types, !.Additional = MapDelete(@, PropType)]]
  ELSE Service_UnmarshalEndpoint(
         [srv EXCEPT !.Types = t.Types, !.Additional = MapDelete(@, PropType)],
         Endpoint_UnmarshalJSON(srv.Additional[PropServiceEndpoint]))

\* Service.UnmarshalJSON from "id" on: p is the result of url.Parse
Service_UnmarshalIdentified(srv, p) ==
  IF p.err
  THEN [err |-> TRUE, why |-> "id",
        srv |-> [srv EXCEPT !.Additional = MapDelete(@, PropID)]]
  ELSE IF PropType \notin DOMAIN srv.Additional
  THEN [err |-> TRUE, why |-> "no type",
        srv |-> [srv EXCEPT !.ID = p.u, !.Additional = MapDelete(@, PropID)]]
  ELSE Service_UnmarshalTyped(
         [srv EXCEPT !.ID = p.u, !.Additional = MapDelete(@, PropID)],
         UnmarshalTypes(srv.Additional[PropType], srv.Types))

\* Service.UnmarshalJSON from the map read: stored is the result of
\* json.Unmarshal(bytes, &srv.Additional)
Service_UnmarshalStored(srv, stored) ==
  IF stored.err
  THEN [err |-> TRUE, why |-> "json", srv |-> srv]
  ELSE IF PropID \notin DOMAIN stored.Additional
  THEN [err |-> TRUE, why |-> "no id",
        srv |-> [srv EXCEPT !.Additional = stored.Additional]]
  ELSE Service_UnmarshalIdentified(
         [srv EXCEPT !.Additional = stored.Additional],
         ParseUnmarshalled(UnmarshalString(stored.Additional[PropID], <<>>)))

\* Service.UnmarshalJSON: [err, why, srv] with the cause of the error in why
Service_UnmarshalJSON(srv, members) ==
  Service_UnmarshalStored(srv, UnmarshalServiceMap(members, srv.Additional))

-----------------------------------------------------------------------------
(* Specification SpecMarshal: MarshalJSON of verification methods and of
   services that a caller made, and UnmarshalJSON of a service. uv is the
   VerificationMethod, ov the Service, in2 the JSON written and in1 the
   JSON read. *)

MaxKeys == 2

MaxEntries == 2

\* values a caller made: Additional with up to MaxKeys of the keys "id",
\* "type", "controller", "k" and "p"
MadeMethods ==
  { [ID |-> [DID |-> [Method |-> <<97>>, SpecID |-> <<98>>], RawPath |-> <<>>,
             RawQuery |-> <<>>, RawFragment |-> <<35, 107>>],
     Type |-> <<84>>,
     Controller |-> [Method |-> <<97>>, SpecID |-> <<98>>],
     Additional |-> [k \in keys |-> v]] :
    keys \in { K \in SUBSET {PropID, PropType, PropController, <<107>>, <<112>>} :
               Cardinality(K) <= MaxKeys },
    v \in {<<49>>, <<34, 122, 34>>} }

ZeroService ==
  [ID |-> <<>>, Types |-> <<>>, Endpoint |-> [URIRefs |-> <<>>, Maps |-> <<>>],
   Additional |-> <<>>]

SeqsUpTo(S, n) == UNION { [1..k -> S] : k \in 0..n }

\* services a caller made: the types "T" and BEL, the URI references "u"
\* and "v&", the map {}, and Additional with up to MaxKeys of
\* the keys "id", "type", "serviceEndpoint" and "k"
MadeServices ==
  { [ID |-> <<35, 115>>, Types |-> ts,
     Endpoint |-> [URIRefs |-> us, Maps |-> ms],
     Additional |-> [k \in keys |-> <<49>>]] :
    ts \in SeqsUpTo({<<84>>, <<7>>}, MaxEntries),
    us \in SeqsUpTo({<<117>>, <<118, 38>>}, MaxEntries),
    ms \in SeqsUpTo({<<123, 125>>}, MaxEntries),
    keys \in { K \in SUBSET {PropID, PropType, PropServiceEndpoint, <<107>>} :
               Cardinality(K) <= MaxKeys } }

\* the "type" values "T", ["T"], ["T","U"], [] and 1, or none
TypeTexts ==
  { <<34, 84, 34>>, <<91, 34, 84, 34, 93>>, <<91, 34, 84, 34, 44, 34, 85, 34, 93>>,
    <<91, 93>>, <<49>> }

\* the "serviceEndpoint" values "u", {}, ["u"], ["u",{}], [], [1] and "%"
EndpointTexts ==
  { <<34, 117, 34>>, <<123, 125>>, <<91, 34, 117, 34, 93>>,
    <<91, 34, 117, 34, 44, 123, 125, 93>>, <<91, 93>>, <<91, 49, 93>>,
    <<34, 37, 34>> }

\* the JSON objects of services read: "id" is "#s" or left out, "type" and
\* "serviceEndpoint" are one of the texts or left out, and "k" is 1 or left
\* out
ServiceObjects ==
  { id \o type \o endpoint \o extra :
    id \in { <<>>, << Member(<<34>> \o PropID \o <<34>>, <<34, 35, 115, 34>>) >> },
    type \in { <<>> } \cup { << Member(<<34>> \o PropType \o <<34>>, t) >> : t \in TypeTexts },
    endpoint \in { <<>> } \cup { << Member(<<34>> \o PropServiceEndpoint \o <<34>>, e) >> :
                                 e \in EndpointTexts },
    extra \in { <<>>, << Member(<<34, 107, 34>>, <<49>>) >> } }

InitMarshal ==
  /\ \/ pc = "method" /\ uv \in MadeMethods /\ ov = ZeroService /\ in1 = <<>>
     \/ pc = "service" /\ uv = ZeroMethod /\ ov \in MadeServices /\ in1 = <<>>
     \/ pc = "text" /\ uv = ZeroMethod /\ ov = ZeroService /\ in1 \in ServiceObjects
  /\ in2 = <<>>
  /\ dv = ZeroDID
  /\ ret = [err |-> FALSE, why |-> ""]

\* in2, err := m.MarshalJSON()
DoMethodMarshal ==
  /\ pc = "method"
  /\ \E order \in Orders(DOMAIN uv.Additional) :
       \E r \in {Method_MarshalJSON(uv, order)} :
         /\ in2' = r.members
         /\ ret' = [err |-> r.err, why |-> IF r.err THEN "additional" ELSE ""]
  /\ pc' = "MethodMarshal"
  /\ UNCHANGED <<in1, dv, uv, ov>>

\* in2, err := srv.MarshalJSON()
DoServiceMarshal ==
  /\ pc = "service"
  /\ \E order \in Orders(DOMAIN ov.Additional) :
       \E r \in {Service_MarshalJSON(ov, order)} :
         /\ in2' = r.members
         /\ ret' = [err |-> r.err, why |-> r.why]
  /\ pc' = "ServiceMarshal"
  /\ UNCHANGED <<in1, dv, uv, ov>>

\* err := json.Unmarshal(in1, &srv) for a new Service srv
DoServiceUnmarshal ==
  /\ pc = "text"
  /\ \E r \in {Service_UnmarshalJSON(ov, in1)} :
       /\ ov' = r.srv
       /\ ret' = [err |-> r.err, why |-> r.why]
  /\ pc' = "ServiceUnmarshal"
  /\ UNCHANGED <<in1, in2, dv, uv>>

NextMarshal == DoMethodMarshal \/ DoServiceMarshal \/ DoServiceUnmarshal

SpecMarshal == InitMarshal /\ [][NextMarshal]_vars

\* C23: a reserved key in Additional is an encode error:
\* VerificationMethod.MarshalJSON returns an error and no JSON when
\* Additional has one of the keys "id", "type", "controller", and
\* Service.MarshalJSON when it has one of "id", "type", "serviceEndpoint",
\* whatever the other entries are; without a reserved key neither fails for
\* that reason.
C23_ReservedKeyError ==
  /\ pc = "MethodMarshal" =>
       IF DOMAIN uv.Additional \cap {PropID, PropType, PropController} # {}
       THEN ret.err /\ in2 = <<>>
       ELSE ~ret.err
  /\ pc = "ServiceMarshal" =>
       IF DOMAIN ov.Additional \cap {PropID, PropType, PropServiceEndpoint} # {}
       THEN ret.err /\ in2 = <<>>
       ELSE ret.why # "additional"

\* C23 witness: a service with a type, an endpoint and the keys
\* "serviceEndpoint" and "k" in Additional is not encoded.
C23_Witness ==
  /\ pc = "ServiceMarshal"
  /\ ov.Types = << <<84>> >>
  /\ ov.Endpoint = [URIRefs |-> << <<117>> >>, Maps |-> <<>>]
  /\ DOMAIN ov.Additional = {PropServiceEndpoint, <<107>>}
  /\ ret.err
  /\ ret.why = "additional"
  /\ in2 = <<>>


\* the value of the first member of the JSON object with the name
ValueOf(members, name) ==
  members[CHOOSE i \in 1..Len(members) :
            /\ members[i].name = <<34>> \o name \o <<34>>
            /\ \A j \in 1..(i - 1) : members[j].name # members[i].name].value

HasMember(members, name) ==
  \E i \in 1..Len(members) : members[i].name = <<34>> \o name \o <<34>>

\* the text is an array of n elements between '[' and ']'
IsArrayTextOf(raw, n) ==
  /\ Len(raw) >= 2 /\ Head(raw) = 91 /\ raw[Len(raw)] = 93
  /\ splitElements(Slice(raw, 1, Len(raw) - 1), <<>>, <<>>, 0, FALSE).ok
  /\ Len(splitElements(Slice(raw, 1, Len(raw) - 1), <<>>, <<>>, 0, FALSE).elements) = n

\* the text is one string between quotes and no array
IsBareString(raw) ==
  /\ IsQuoted(raw)
  /\ splitElements(Slice(raw, 0, Len(raw)), <<>>, <<>>, 0, FALSE).elements = << raw >>

\* the text is a JSON object and no array
IsBareObject(raw) == raw # <<>> /\ Head(raw) = 123 /\ IsJSONElement(raw)

\* the entries of the endpoint of a service
EndpointEntries(srv) == Len(srv.Endpoint.URIRefs) + Len(srv.Endpoint.Maps)

\* C26: minimal shape for the fields of a service: Service.MarshalJSON
\* writes "type" as a bare string for one type and as an array for two or
\* more, writes "serviceEndpoint" as a bare string or a bare object for an
\* endpoint of one entry and as an array for two or more, and returns an
\* error when there is no type or no entry in the endpoint; decoding
\* rejects an empty "type" array and an empty "serviceEndpoint" array.
C26_MinimalShape ==
  /\ pc = "ServiceMarshal" /\ (Len(ov.Types) = 0 \/ EndpointEntries(ov) = 0) =>
       ret.err /\ in2 = <<>>
  /\ pc = "ServiceMarshal" /\ ~ret.err =>
       /\ HasMember(in2, PropType) /\ HasMember(in2, PropServiceEndpoint)
       /\ IF Len(ov.Types) = 1
          THEN IsBareString(ValueOf(in2, PropType))
          ELSE IsArrayTextOf(ValueOf(in2, PropType), Len(ov.Types))
       /\ IF EndpointEntries(ov) # 1
          THEN IsArrayTextOf(ValueOf(in2, PropServiceEndpoint), EndpointEntries(ov))
          ELSE IF Len(ov.Endpoint.URIRefs) = 1
          THEN IsBareString(ValueOf(in2, PropServiceEndpoint))
          ELSE IsBareObject(ValueOf(in2, PropServiceEndpoint))
  /\ pc = "ServiceUnmarshal" /\ HasMember(in1, PropType)
       /\ ValueOf(in1, PropType) = <<91, 93>> => ret.err
  /\ pc = "ServiceUnmarshal" /\ HasMember(in1, PropServiceEndpoint)
       /\ ValueOf(in1, PropServiceEndpoint) = <<91, 93>> => ret.err

\* C26 witness: a service of the types "T" and BEL with an endpoint of the
\* one map {} is written with the array ["T","\a"] and the bare object {}.
C26_Witness ==
  /\ pc = "ServiceMarshal"
  /\ ~ret.err
  /\ ov.Types = << <<84>>, <<7>> >>
  /\ ov.Endpoint = [URIRefs |-> <<>>, Maps |-> << <<123, 125>> >>]
  /\ ValueOf(in2, PropType) = <<91, 34, 84, 34, 44, 34, 92, 97, 34, 93>>
  /\ ValueOf(in2, PropServiceEndpoint) = <<123, 125>>

\* C26: of the objects read, exactly those with "id", a string or a
\* non-empty array of strings for "type", and a reference, an object or a
\* non-empty array of these for "serviceEndpoint" are decoded.
C26_DecodeRejectsEmpty ==
  pc = "ServiceUnmarshal" /\ ~ret.err =>
    /\ Len(ov.Types) >= 1
    /\ EndpointEntries(ov) >= 1
    /\ DOMAIN ov.Additional \cap {PropID, PropType, PropServiceEndpoint} = {}

-----------------------------------------------------------------------------
(* JSON of the verification relationships (document.go). The text of a
   JSON array is the sequence of its tokens: '[' and ',' and ']', objects
   as their members and the other values as their raw text. *)

TokOpen == [kind |-> "[", members |-> <<>>, raw |-> <<>>]

TokClose == [kind |-> "]", members |-> <<>>, raw |-> <<>>]

TokComma == [kind |-> ",", members |-> <<>>, raw |-> <<>>]

TokObject(members) == [kind |-> "object", members |-> members, raw |-> <<>>]

TokValue(raw) == [kind |-> "value", members |-> <<>>, raw |-> raw]

\* the token is a well-formed JSON value
IsJSONToken(tok) ==
  \/ tok.kind = "object" /\ IsJSONObject(tok.members)
  \/ tok.kind = "value" /\ IsJSONValue(tok.raw)

\* the tokens are one well-formed JSON array
IsJSONArray(toks) ==
  /\ Len(toks) >= 2
  /\ toks[1] = TokOpen
  /\ toks[Len(toks)] = TokClose
  /\ Len(toks) = 2 \/ Len(toks) % 2 = 1
  /\ \A i \in 2..(Len(toks) - 1) :
       IF i % 2 = 0 THEN IsJSONToken(toks[i]) ELSE toks[i] = TokComma

\* the elements of a well-formed JSON array
ArrayElements(toks) ==
  [i \in 1..((Len(toks) - 1) \div 2) |-> toks[2 * i]]

\* the only order of the range over a map with one key at most
OnlyOrder(additional) == CHOOSE order \in Orders(DOMAIN additional) : TRUE

\* json.Marshal(r.Methods) of one or more methods, each with one property
\* in Additional at most: [err, toks]. json.Marshal takes the output of a
\* MarshalJSON when it is well-formed only.
RECURSIVE MarshalMethods(_, _)
RECURSIVE MarshalMethod(_, _, _)
MarshalMethod(methods, toks, object) ==
  IF object.err \/ ~IsJSONObject(object.members) THEN [err |-> TRUE, toks |-> <<>>]
  ELSE MarshalMethods(methods,
                      (IF Len(toks) > 1 THEN Append(toks, TokComma) ELSE toks)
                      \o << TokObject(object.members) >>)

MarshalMethods(methods, toks) ==
  IF methods = <<>> THEN [err |-> FALSE, toks |-> Append(toks, TokClose)]
  ELSE MarshalMethod(Tail(methods), toks,
                     Method_MarshalJSON(Head(methods), OnlyOrder(Head(methods).Additional)))

\* the loop of MarshalJSON over r.URIRefs
RECURSIVE MarshalRefs(_, _)
MarshalRefs(refs, buf) ==
  IF refs = <<>> THEN buf
  ELSE MarshalRefs(Tail(refs),
                   Append(IF Len(buf) = 0 THEN Append(buf, TokOpen) ELSE Append(buf, TokComma),
                          TokValue(AppendQuote(URL_String(Head(refs))))))

\* the end of MarshalJSON: methods is the result of json.Marshal(r.Methods),
\* or no tokens without an error when r.Methods is empty
Relationship_MarshalRefs(r, methods) ==
  IF methods.err THEN [err |-> TRUE, toks |-> <<>>]
  ELSE [err |-> FALSE, toks |-> Append(MarshalRefs(r.URIRefs, methods.toks), TokClose)]

\* VerificationRelationship.MarshalJSON: [err, toks]
Relationship_MarshalJSON(r) ==
  IF Len(r.Methods) = 0 /\ Len(r.URIRefs) = 0
  THEN [err |-> FALSE, toks |-> << TokValue(<<110, 117, 108, 108>>) >>]
  ELSE Relationship_MarshalRefs(r,
         IF Len(r.Methods) # 0 THEN MarshalMethods(r.Methods, <<TokOpen>>)
         ELSE [err |-> FALSE, toks |-> <<>>])

\* one element of the array decoded: [err, embedded, m, u]
ElementMethod(res) == [err |-> res.err, embedded |-> TRUE, m |-> res.m, u |-> ZeroURL]

ElementRef(res) == [err |-> res.err, embedded |-> FALSE, m |-> ZeroMethod, u |-> res.v]

UnmarshalElement(tok) ==
  IF tok.kind = "object" THEN ElementMethod(Method_UnmarshalJSON(ZeroMethod, tok.members))
  ELSE IF Head(tok.raw) = 34 THEN ElementRef(UnmarshalURL(tok.raw, ZeroURL))
  ELSE [err |-> TRUE, embedded |-> FALSE, m |-> ZeroMethod, u |-> ZeroURL]

\* the loop of UnmarshalJSON over the elements: [err, r]
RECURSIVE UnmarshalElements(_, _)
RECURSIVE AppendElement(_, _, _)
AppendElement(elements, r, e) ==
  IF e.err THEN [err |-> TRUE, r |-> r]
  ELSE IF e.embedded
       THEN UnmarshalElements(elements, [r EXCEPT !.Methods = Append(@, e.m)])
  ELSE UnmarshalElements(elements, [r EXCEPT !.URIRefs = Append(@, e.u)])

UnmarshalElements(elements, r) ==
  IF elements = <<>> THEN [err |-> FALSE, r |-> r]
  ELSE AppendElement(Tail(elements), r, UnmarshalElement(Head(elements)))

\* VerificationRelationship.UnmarshalJSON of a text of JSON: [err, r]
Relationship_UnmarshalJSON(toks) ==
  IF toks[1].kind = "[" 
  THEN IF ~IsJSONArray(toks) THEN [err |-> TRUE, r |-> [Methods |-> <<>>, URIRefs |-> <<>>]]
       ELSE UnmarshalElements(ArrayElements(toks), [Methods |-> <<>>, URIRefs |-> <<>>])
  ELSE IF toks[1].kind = "value" /\ Head(toks[1].raw) = 110
       THEN [err |-> FALSE, r |-> [Methods |-> <<>>, URIRefs |-> <<>>]]
  ELSE [err |-> TRUE, r |-> [Methods |-> <<>>, URIRefs |-> <<>>]]

-----------------------------------------------------------------------------
(* Specification SpecRelationship: the JSON codec of
   VerificationRelationship. uv is the relationship to encode, in2 the JSON
   written and ov the relationship decoded from it; in1 is a text of JSON
   to decode. *)

MaxRelEntries == 2

\* embedded methods: did:a:b#k and did:a:b#l, the second one with the
\* property "p": 1
RelMethods ==
  { [ID |-> [DID |-> [Method |-> <<97>>, SpecID |-> <<98>>], RawPath |-> <<>>,
             RawQuery |-> <<>>, RawFragment |-> <<35, 107>>],
     Type |-> <<84>>, Controller |-> [Method |-> <<97>>, SpecID |-> <<98>>],
     Additional |-> <<>>],
    [ID |-> [DID |-> [Method |-> <<97>>, SpecID |-> <<98>>], RawPath |-> <<>>,
             RawQuery |-> <<>>, RawFragment |-> <<35, 108>>],
     Type |-> <<84>>, Controller |-> [Method |-> <<97>>, SpecID |-> <<98>>],
     Additional |-> [k \in {<<112>>} |-> <<49>>]] }

\* references: did:a:b#k and #k
RelRefs ==
  { [DID |-> [Method |-> <<97>>, SpecID |-> <<98>>], RawPath |-> <<>>,
     RawQuery |-> <<>>, RawFragment |-> <<35, 107>>],
    [DID |-> ZeroDID, RawPath |-> <<>>, RawQuery |-> <<>>, RawFragment |-> <<35, 107>>] }

Relationships ==
  { [Methods |-> ms, URIRefs |-> us] :
    ms \in SeqsUpTo(RelMethods, MaxRelEntries), us \in SeqsUpTo(RelRefs, MaxRelEntries) }

\* values of an array to decode: "#k", 1, null and an object without "id"
RelElements ==
  { TokValue(<<34, 35, 107, 34>>), TokValue(<<49>>), TokValue(<<110, 117, 108, 108>>),
    TokObject(<< Member(<<34, 107, 34>>, <<49>>) >>) }

\* the text of the array of the values es
TokArray(es) ==
  <<TokOpen>>
  \o [i \in 1..(IF Len(es) = 0 THEN 0 ELSE 2 * Len(es) - 1) |->
        IF i % 2 = 1 THEN es[(i + 1) \div 2] ELSE TokComma]
  \o <<TokClose>>

\* texts to decode: null, 1, "#k", and arrays of up to MaxRelEntries values
RelTexts ==
  { << TokValue(<<110, 117, 108, 108>>) >>, << TokValue(<<49>>) >>,
    << TokValue(<<34, 35, 107, 34>>) >> }
  \cup { TokArray(es) : es \in SeqsUpTo(RelElements, MaxRelEntries) }

InitRelationship ==
  /\ \/ pc = "value" /\ uv \in Relationships /\ in1 = <<>>
     \/ pc = "text" /\ uv = [Methods |-> <<>>, URIRefs |-> <<>>] /\ in1 \in RelTexts
  /\ in2 = <<>>
  /\ dv = ZeroDID
  /\ ov = [Methods |-> <<>>, URIRefs |-> <<>>]
  /\ ret = [err |-> FALSE]

\* in2, err := r.MarshalJSON()
DoRelationshipMarshal ==
  /\ pc = "value"
  /\ \E res \in {Relationship_MarshalJSON(uv)} :
       /\ in2' = res.toks
       /\ ret' = [err |-> res.err]
  /\ pc' = "MarshalJSON"
  /\ UNCHANGED <<in1, dv, uv, ov>>

\* err := o.UnmarshalJSON(in2), of the JSON written
DoRelationshipUnmarshal ==
  /\ pc = "MarshalJSON"
  /\ ~ret.err
  /\ \E res \in {Relationship_UnmarshalJSON(in2)} :
       /\ ov' = res.r
       /\ ret' = [err |-> res.err]
  /\ pc' = "UnmarshalOutput"
  /\ UNCHANGED <<in1, in2, dv, uv>>

\* err := o.UnmarshalJSON(in1)
DoRelationshipUnmarshalText ==
  /\ pc = "text"
  /\ \E res \in {Relationship_UnmarshalJSON(in1)} :
       /\ ov' = res.r
       /\ ret' = [err |-> res.err]
  /\ pc' = "UnmarshalText"
  /\ UNCHANGED <<in1, in2, dv, uv>>

NextRelationship ==
  \/ DoRelationshipMarshal
  \/ DoRelationshipUnmarshal
  \/ DoRelationshipUnmarshalText

SpecRelationship == InitRelationship /\ [][NextRelationship]_vars

\* the tokens are an array of the objects of the methods and then the
\* strings of the references of r
IsArrayOf(toks, r) ==
  /\ IsJSONArray(toks)
  /\ Len(ArrayElements(toks)) = Len(r.Methods) + Len(r.URIRefs)
  /\ \A i \in 1..Len(r.Methods) : ArrayElements(toks)[i].kind = "object"
  /\ \A i \in 1..Len(r.URIRefs) :
       /\ ArrayElements(toks)[Len(r.Methods) + i].kind = "value"
       /\ Head(ArrayElements(toks)[Len(r.Methods) + i].raw) = 34

\* C24: verification-relationship codec: MarshalJSON of a relationship with
\* an embedded method or a reference writes one well-formed JSON array of
\* the method objects followed by the references as strings, and
\* UnmarshalJSON of it gives the same methods and references in the same
\* order; a relationship with neither is written as null; and UnmarshalJSON
\* takes an array of objects and strings or null only.
C24_RelationshipCodec ==
  /\ pc = "MarshalJSON" =>
       /\ ~ret.err
       /\ IF Len(uv.Methods) = 0 /\ Len(uv.URIRefs) = 0
          THEN in2 = << TokValue(<<110, 117, 108, 108>>) >>
          ELSE IsArrayOf(in2, uv)
  /\ pc = "UnmarshalOutput" => ~ret.err /\ ov = uv
  /\ (pc = "UnmarshalText" /\ ~ret.err) =>
       \/ in1 = << TokValue(<<110, 117, 108, 108>>) >>
       \/ /\ IsJSONArray(in1)
          /\ \A i \in 1..Len(ArrayElements(in1)) :
               \/ ArrayElements(in1)[i].kind = "object"
               \/ Head(ArrayElements(in1)[i].raw) = 34

\* the codec for the relationships without embedded methods
C24_ReferencesOnly ==
  Len(uv.Methods) = 0 => C24_RelationshipCodec

-----------------------------------------------------------------------------
(* JSON of the controllers of a document (document.go): Set has an
   UnmarshalJSON and no MarshalJSON, so encoding/json encodes the
   Controllers of a Document as the slice of DID values it is, and leaves
   the property out when the slice is empty (omitempty). *)

\* DID.MarshalJSON
DID_MarshalJSON(d) == jsonMarshalString(String(d))

\* the value of the "controller" property json.Marshal writes for a
\* Document with the Controllers set; no tokens when it leaves it out
MarshalControllers(set) ==
  IF Len(set) = 0 THEN <<>>
  ELSE TokArray([i \in 1..Len(set) |-> TokValue(DID_MarshalJSON(set[i]))])

\* DID.UnmarshalJSON(raw) on a DID with the value old: [err, v]
DID_UnmarshalJSON(raw, old) == UnmarshalDIDString(old, UnmarshalString(raw, <<>>))

\* the loop of Set.UnmarshalJSON over the strings of the array: [err, set]
RECURSIVE UnmarshalStrings(_, _)
RECURSIVE StoreDID(_, _, _)
StoreDID(strings, set, res) ==
  IF res.err THEN [err |-> TRUE, set |-> set]
  ELSE UnmarshalStrings(strings, Append(set, res.v))

UnmarshalStrings(strings, set) ==
  IF strings = <<>> THEN [err |-> FALSE, set |-> set]
  ELSE StoreDID(Tail(strings), set, DID_UnmarshalJSON(Head(strings).raw, ZeroDID))

\* Set.UnmarshalJSON of a text of JSON, on a new Set: [err, set]
Set_UnmarshalJSON(toks) ==
  IF toks[1].kind = "value" /\ Head(toks[1].raw) = 110 THEN [err |-> FALSE, set |-> <<>>]
  ELSE IF toks[1].kind = "value" /\ Head(toks[1].raw) = 34
       THEN StoreDID(<<>>, <<>>, DID_UnmarshalJSON(toks[1].raw, ZeroDID))
  ELSE IF toks[1].kind = "["
       THEN IF ~IsJSONArray(toks) THEN [err |-> TRUE, set |-> <<>>]
            ELSE IF \E i \in 1..Len(ArrayElements(toks)) : ArrayElements(toks)[i].kind # "value"
                 THEN [err |-> TRUE, set |-> <<>>]
            ELSE UnmarshalStrings(ArrayElements(toks), <<>>)
  ELSE [err |-> TRUE, set |-> <<>>]

-----------------------------------------------------------------------------
(* Specification SpecSet: the JSON of the Controllers of a document. uv is
   the Set to encode, in2 the value written for the property and ov the Set
   decoded; in1 is a text of JSON to decode. *)

MaxSet == 3

\* did:a:b, did:a:c and did:x:y
SetDIDs ==
  { [Method |-> <<97>>, SpecID |-> <<98>>], [Method |-> <<97>>, SpecID |-> <<99>>],
    [Method |-> <<120>>, SpecID |-> <<121>>] }

Sets == SeqsUpTo(SetDIDs, MaxSet)

\* "did:a:b", "did:a:c", "x" and 1
SetElements ==
  { TokValue(<<34, 100, 105, 100, 58, 97, 58, 98, 34>>),
    TokValue(<<34, 100, 105, 100, 58, 97, 58, 99, 34>>),
    TokValue(<<34, 120, 34>>), TokValue(<<49>>) }

\* texts to decode: null, one value, and arrays of up to MaxSet values
SetTexts ==
  { << TokValue(<<110, 117, 108, 108>>) >> }
  \cup { << e >> : e \in SetElements }
  \cup { TokArray(es) : es \in SeqsUpTo(SetElements, MaxSet) }

InitSet ==
  /\ \/ pc = "value" /\ uv \in Sets /\ in1 = <<>>
     \/ pc = "text" /\ uv = <<>> /\ in1 \in SetTexts
  /\ in2 = <<>>
  /\ dv = ZeroDID
  /\ ov = <<>>
  /\ ret = [err |-> FALSE]

\* json.Marshal of a Document with the Controllers uv: the value of the
\* "controller" property
DoSetMarshal ==
  /\ pc = "value"
  /\ in2' = MarshalControllers(uv)
  /\ pc' = "Marshal"
  /\ UNCHANGED <<in1, dv, uv, ov, ret>>

\* err := set.UnmarshalJSON(in2), of the value written
DoSetUnmarshal ==
  /\ pc = "Marshal"
  /\ in2 # <<>>
  /\ \E res \in {Set_UnmarshalJSON(in2)} :
       /\ ov' = res.set
       /\ ret' = [err |-> res.err]
  /\ pc' = "UnmarshalOutput"
  /\ UNCHANGED <<in1, in2, dv, uv>>

\* err := set.UnmarshalJSON(in1)
DoSetUnmarshalText ==
  /\ pc = "text"
  /\ \E res \in {Set_UnmarshalJSON(in1)} :
       /\ ov' = res.set
       /\ ret' = [err |-> res.err]
  /\ pc' = "UnmarshalText"
  /\ UNCHANGED <<in1, in2, dv, uv>>

NextSet == DoSetMarshal \/ DoSetUnmarshal \/ DoSetUnmarshalText

SpecSet == InitSet /\ [][NextSet]_vars

\* the token is the JSON string of a DID of SetDIDs
IsDIDString(tok) ==
  /\ tok.kind = "value"
  /\ \E d \in SetDIDs : tok.raw = <<34>> \o String(d) \o <<34>>

\* C25: minimal shape for the controller set: a Document with exactly one
\* controller is written with the bare JSON string of it, and with a JSON
\* array only when there are two or more; decoding takes the bare string
\* and the array.
C25_ControllerShape ==
  /\ pc = "Marshal" =>
       /\ Len(uv) = 1 => in2 = << TokValue(<<34>> \o String(uv[1]) \o <<34>>) >>
       /\ Len(uv) >= 2 => IsJSONArray(in2) /\ Len(ArrayElements(in2)) = Len(uv)
  /\ pc = "UnmarshalOutput" => ~ret.err /\ ov = uv
  /\ pc = "UnmarshalText" =>
       /\ (Len(in1) = 1 /\ IsDIDString(in1[1])) => ~ret.err /\ Len(ov) = 1
       /\ (IsJSONArray(in1) /\ \A i \in 1..Len(ArrayElements(in1)) :
                                  IsDIDString(ArrayElements(in1)[i]))
            => ~ret.err /\ Len(ov) = Len(ArrayElements(in1))

\* the part of C25 on decoding
C25_DecodesBothShapes ==
  pc # "Marshal" => C25_ControllerShape

-----------------------------------------------------------------------------
(* Client.Resolve of package didweb (didweb/web.go). An error is the set
   of the errors it matches with errors.Is, together with its text. *)

DownloadMaxDefault == 65536

\* the hard limit of a negative DownloadMax
DownloadMaxHard == 1073741824

StatusOK == 200

StatusNotFound == 404

StatusNotAcceptable == 406

NoResolveError == [err |-> FALSE, is |-> {}, text |-> "", status |-> 0, url |-> ""]

\* the upper boundary for the size of the body
downloadMax(c) ==
  IF c.DownloadMax > 0 THEN c.DownloadMax
  ELSE IF c.DownloadMax < 0 THEN DownloadMaxHard
  ELSE DownloadMaxDefault

\* json.NewDecoder(&r).Decode(&d) on the body behind the io.LimitedReader
\* of max octets: [err, N] with the octets N that remain of the limit. A
\* body beyond the limit is cut off, which leaves no JSON value; an object
\* without a property of Document decodes into the zero Document.
Decode(body, max) ==
  IF body.len > max THEN [err |-> TRUE, N |-> 0]
  ELSE [err |-> body.kind = "malformed", N |-> max - body.len]

\* Client.Resolve from the response on
ResolveResponse(c, URL, res) ==
  IF res.status = StatusNotFound
  THEN [NoResolveError EXCEPT !.err = TRUE, !.is = {"ErrNotFound"}, !.text = "ErrNotFound"]
  ELSE IF res.status = StatusNotAcceptable
  THEN [NoResolveError EXCEPT !.err = TRUE, !.is = {"ErrMediaType"}, !.text = "want JSON"]
  ELSE IF res.status # StatusOK
  THEN [NoResolveError EXCEPT !.err = TRUE, !.text = "HTTP", !.status = res.status, !.url = URL]
  ELSE IF ~Decode(res.body, downloadMax(c)).err THEN NoResolveError
  ELSE IF Decode(res.body, downloadMax(c)).N <= 0
  THEN [NoResolveError EXCEPT !.err = TRUE, !.is = {"ErrDownloadMax"}, !.text = "reached",
                       !.url = URL]
  ELSE [NoResolveError EXCEPT !.err = TRUE, !.is = {"json"}, !.text = "unavailable", !.url = URL]

\* Client.Resolve: the URL is one http.NewRequest takes or not, and the
\* exchange gives the response res or fails
Client_Resolve(c, URL, exchange) ==
  IF URL = "malformed"
  THEN [NoResolveError EXCEPT !.err = TRUE, !.is = {"ErrNotFound", "url"}, !.text = "ErrNotFound"]
  ELSE IF exchange.failed
  THEN [NoResolveError EXCEPT !.err = TRUE, !.is = {"transport"}, !.text = "lookup"]
  ELSE ResolveResponse(c, URL, exchange.res)

-----------------------------------------------------------------------------
(* Specification SpecResolve: one Resolve of a Client. uv is the Client,
   in1 the URL, in2 the exchange with the server and ret the error. *)

MaxBody == 3

\* the octets of the body {"error": "invalidDid"}
MinBody == 23

\* the status codes of the responses
Statuses == {200, 204, 400, 404, 406, 410, 500}

\* the bodies: a DID document, the object {"error":"invalidDid"}, and text
\* that is no JSON, each of MinBody octets and up to MaxBody - 1 more
Bodies ==
  { [kind |-> k, len |-> n] : k \in {"document", "invalidDid", "malformed"},
                              n \in MinBody..(MinBody + MaxBody - 1) }

Exchanges ==
  { [failed |-> TRUE, res |-> [status |-> 0, body |-> [kind |-> "", len |-> 0]]] }
  \cup { [failed |-> FALSE, res |-> [status |-> s, body |-> b]] :
         s \in Statuses, b \in Bodies }

InitResolve ==
  /\ pc = "init"
  /\ uv \in { [DownloadMax |-> n] : n \in {0 - 1, 0} \cup MinBody..(MinBody + MaxBody - 2) }
  /\ in1 \in {"http://h/did.json", "malformed"}
  /\ in2 \in Exchanges
  /\ dv = ZeroDID
  /\ ov = FALSE
  /\ ret = NoResolveError

\* doc, _, err := c.Resolve(in1); ov tells whether a document came
DoResolve ==
  /\ pc = "init"
  /\ \E r \in {Client_Resolve(uv, in1, in2)} :
       /\ ret' = r
       /\ ov' = ~r.err
  /\ pc' = "Resolve"
  /\ UNCHANGED <<in1, in2, dv, uv>>

NextResolve == DoResolve

SpecResolve == InitResolve /\ [][NextResolve]_vars

\* the errors of the standard vocabulary
Vocabulary == {"ErrNotFound", "ErrMediaType", "ErrInvalid"}

\* Resolve got a response
Responded == pc = "Resolve" /\ in1 # "malformed" /\ ~in2.failed

\* C27: the HTTP resolver maps the responses to the standard errors:
\* Resolve returns an error that matches ErrNotFound for status 404, one
\* that matches ErrMediaType for status 406, one that matches ErrInvalid
\* for a response with the body {"error":"invalidDid"}, and for any other
\* status outside of 2xx an error with the status and the URL that matches
\* none of the three.
C27_ErrorVocabulary ==
  Responded =>
    /\ in2.res.status = 404 => ret.err /\ "ErrNotFound" \in ret.is
    /\ in2.res.status = 406 => ret.err /\ "ErrMediaType" \in ret.is
    /\ in2.res.body.kind = "invalidDid" => ret.err /\ "ErrInvalid" \in ret.is
    /\ ( /\ in2.res.status \notin {404, 406} \cup 200..299
         /\ in2.res.body.kind # "invalidDid" ) =>
         /\ ret.err
         /\ ret.is \cap Vocabulary = {}
         /\ ret.status = in2.res.status /\ ret.url = in1

\* C27: the mapping by status alone holds: 404 and 406 give their errors
\* and any other status but 200 gives the error with the status and URL.
C27_StatusMapping ==
  Responded =>
    /\ in2.res.status = 404 => ret.err /\ ret.is = {"ErrNotFound"}
    /\ in2.res.status = 406 => ret.err /\ ret.is = {"ErrMediaType"}
    /\ in2.res.status \notin {200, 404, 406} =>
         /\ ret.err
         /\ ret.is \cap Vocabulary = {}
         /\ ret.status = in2.res.status /\ ret.url = in1

-----------------------------------------------------------------------------
(* Specification SpecInvalid: Equal of URL values that a caller made, with
   raw fields that are no valid encoding among them. uv and ov are the
   URLs and ret the result. *)

\* the paths "", "/", "/a", "/%61", "/%", "/ " and "/%/.."
RawPaths ==
  { <<>>, <<47>>, <<47, 97>>, <<47, 37, 54, 49>>, <<47, 37>>, <<47, 32>>,
    <<47, 37, 47, 46, 46>> }

\* the queries "", "?a", "?%61" and "?%"
RawQueries == { <<>>, <<63, 97>>, <<63, 37, 54, 49>>, <<63, 37>> }

\* the fragments "", "#a", "#%61" and "# "
RawFragments == { <<>>, <<35, 97>>, <<35, 37, 54, 49>>, <<35, 32>> }

\* URLs of did:a:b
MadeURLs ==
  { [DID |-> [Method |-> <<97>>, SpecID |-> <<98>>],
     RawPath |-> p, RawQuery |-> q, RawFragment |-> f] :
    p \in RawPaths, q \in RawQueries, f \in RawFragments }

InitInvalid ==
  /\ pc = "init"
  /\ uv \in MadeURLs
  /\ ov \in MadeURLs
  /\ in1 = <<>>
  /\ in2 = <<>>
  /\ dv = ZeroDID
  /\ ret = FALSE

\* ret := uv.Equal(ov)
DoInvalidEqual ==
  /\ pc = "init"
  /\ ret' = URL_Equal(uv, ov)
  /\ pc' = "Equal"
  /\ UNCHANGED <<in1, in2, dv, uv, ov>>

NextInvalid == DoInvalidEqual

SpecInvalid == InitInvalid /\ [][NextInvalid]_vars

\* every octet of s is one of the allowed, or a '%' with two hexadecimal
\* digits after it
RECURSIVE ValidEscaped(_, _)
ValidEscaped(s, allowed) ==
  IF s = <<>> THEN TRUE
  ELSE IF Head(s) \in allowed THEN ValidEscaped(Tail(s), allowed)
  ELSE IF Head(s) = 37 /\ Len(s) >= 3 /\ IsHex(s[2]) /\ IsHex(s[3])
       THEN ValidEscaped(From(s, 3), allowed)
  ELSE FALSE

\* a raw field of the URL has a malformed percent-encoding or an octet
\* outside of the alphabet of its component
HasInvalidEncoding(u) ==
  \/ ~ValidEscaped(u.RawPath, PathChars)
  \/ ~ValidEscaped(u.RawQuery, QueryChars)
  \/ ~ValidEscaped(IF u.RawFragment # <<>> /\ Head(u.RawFragment) = 35
                   THEN Tail(u.RawFragment) ELSE u.RawFragment, QueryChars)

\* C28: invalid encodings never compare equal: u.Equal(o) is false whenever
\* RawPath, RawQuery or RawFragment of u or of o has a malformed
\* percent-encoding or an octet outside of the alphabet of the component,
\* also when u and o hold the same fields.
C28_InvalidNeverEqual ==
  pc = "Equal" /\ (HasInvalidEncoding(uv) \/ HasInvalidEncoding(ov)) => ~ret

\* C28: an invalid query or fragment that is not the same text in both
\* operands does not compare equal.
C28_InvalidDiffers ==
  pc = "Equal" =>
    /\ ( /\ uv.RawQuery # ov.RawQuery
         /\ (~ValidEscaped(uv.RawQuery, QueryChars) \/ ~ValidEscaped(ov.RawQuery, QueryChars)) )
       => ~ret
    /\ ( /\ uv.RawFragment # ov.RawFragment
         /\ (HasInvalidEncoding([uv EXCEPT !.RawPath = <<>>, !.RawQuery = <<>>])
             \/ HasInvalidEncoding([ov EXCEPT !.RawPath = <<>>, !.RawQuery = <<>>])) )
       => ~ret

-----------------------------------------------------------------------------
(* URL.Equal and URL.PathSegments on the URLs of specification SpecURL *)

\* the URL with its path normalized in the way of pathEqual
WithCleanPath(u) == [u EXCEPT !.RawPath = pathJoinRoot(@)]

\* the raw segments of the path, without the empty one in front of the
\* first "/" and the empty one behind a last "/"
InnerSegments(path) ==
  LET segs == RawSegments(path, <<>>)
      from == IF Len(segs) > 1 /\ segs[1] = <<>> THEN 2 ELSE 1
      to == IF Len(segs) > 1 /\ segs[Len(segs)] = <<>> THEN Len(segs) - 1 ELSE Len(segs)
  IN SubSeq(segs, from, to)

\* the path has no "." segment, no ".." segment and no empty segment
IsCleanPath(path) ==
  \A i \in 1..Len(InnerSegments(path)) :
    InnerSegments(path)[i] \notin {<<>>, <<46>>, <<46, 46>>}

\* C29 as stated: equivalence is consistent with the path accessor: for
\* absolute URLs u and o from ParseURL, u.Equal(o) implies that
\* u.PathSegments() and o.PathSegments() are the same sequence.
C29_EqualSameSegments ==
  (Compared /\ ret = TRUE) => PathSegments(uv) = PathSegments(ov)

\* C29 amended: for absolute URLs u and o from ParseURL, u.Equal(o) implies
\* that PathSegments gives the same sequence for both once the paths are
\* normalized in the way of path.Clean, and for the paths as they are when
\* neither has a ".", ".." or empty segment.
C29_EqualCleanSegments ==
  (Compared /\ ret = TRUE) =>
    /\ PathSegments(WithCleanPath(uv)) = PathSegments(WithCleanPath(ov))
    /\ (IsCleanPath(uv.RawPath) /\ IsCleanPath(ov.RawPath))
         => PathSegments(uv) = PathSegments(ov)

\* C29 witness: the paths "/%61" and "/a" compared equal, and both give
\* the one segment "a".
C29_Witness ==
  /\ Compared
  /\ ret = TRUE
  /\ uv.RawPath = <<47, 37, 54, 49>>
  /\ ov.RawPath = <<47, 97>>
  /\ PathSegments(uv) = << <<97>> >>
  /\ PathSegments(ov) = << <<97>> >>

====
